---- MODULE Spec2Model ----
(***************************************************************************)
(* A model of TGConvertor's session codecs and of the SessionManager that  *)
(* drives them.                                                            *)
(*                                                                         *)
(* Python values are modelled as follows: bytes objects are sequences of   *)
(* naturals 0..255; a str holding base64 text is a record [chars, pad]     *)
(* whose chars are the 6-bit values of its data characters (the urlsafe    *)
(* alphabet is a bijection between characters and 0..63) and whose pad is  *)
(* the number of trailing "=" characters; None is the integer -1 where an  *)
(* optional integer is expected; the outcome of a call is a record whose   *)
(* kind is "ok" or the name of the exception class raised.                 *)
(*                                                                         *)
(* The repository holds three implementations of PyroSession: the one the  *)
(* package selects when pyrogram is installed (sessions/pyro.py), the one  *)
(* it selects when kurigram is installed (sessions/pyro/kuri.py) and the   *)
(* copy kept in the legacy manager package (manager/sessions/pyro.py).     *)
(* The variable pkg says which of them the running program has imported.   *)
(***************************************************************************)
EXTENDS Integers, Sequences, FiniteSets, TLC

VARIABLES
    pkg,    \* which PyroSession/TeleSession implementation is imported
    tok,    \* the session string at hand, with the values it was built from
    call,   \* the last completed call: its operation, argument and outcome
    fs,     \* the file system: path -> what is stored there
    mgr     \* the SessionManager object

vars == <<pkg, tok, call, fs, mgr>>

None == -1

----------------------------------------------------------------------------
(* Bounds of the model.                                                    *)

\* auth keys tried: Key(1) .. Key(NumKeys)
NumKeys == 2
\* raw tokens tried decode to a layout size plus or minus 1..MaxSlack bytes
MaxSlack == 2

----------------------------------------------------------------------------
(* bytes, struct and base64                                                *)

RECURSIVE IntOf(_)
\* int.from_bytes(b, "big"), as struct.unpack computes it for B, I and Q
IntOf(b) == IF Len(b) = 0 THEN 0
            ELSE IntOf(SubSeq(b, 1, Len(b) - 1)) * 256 + b[Len(b)]

\* v >> (8 * s); every integer of the model is below 2^31, so the shift is 0
\* from the fourth byte on
Shift(v, s) == IF s >= 4 THEN 0 ELSE v \div (256 ^ s)

\* size in bytes of one struct format code
CodeSize(c) == CASE c = "B" -> 1
                 [] c = "?" -> 1
                 [] c = "I" -> 4
                 [] c = "Q" -> 8
                 [] c = "H" -> 2
                 [] c = "4s" -> 4
                 [] c = "16s" -> 16
                 [] c = "256s" -> 256

\* the codes "<n>s": n bytes, taken from a bytes value
IsBytes(c) == c \in {"4s", "16s", "256s"}

RECURSIVE Offset(_, _)
\* number of bytes before field k of format fmt (">": no alignment)
Offset(fmt, k) == IF k = 1 THEN 0
                  ELSE Offset(fmt, k - 1) + CodeSize(fmt[k - 1])

\* struct.calcsize(fmt)
calcsize(fmt) == Offset(fmt, Len(fmt)) + CodeSize(fmt[Len(fmt)])

\* the field of fmt that byte i (1-based) belongs to
FieldAt(fmt, i) ==
    CHOOSE k \in 1..Len(fmt) :
        Offset(fmt, k) < i /\ i <= Offset(fmt, k) + CodeSize(fmt[k])

\* byte j (1-based, most significant first) of value v packed under code c
FieldByte(c, v, j) ==
    CASE c = "?" -> (IF v = TRUE THEN 1 ELSE 0)
      [] IsBytes(c) -> (IF j <= Len(v) THEN v[j] ELSE 0)
      [] OTHER -> Shift(v, CodeSize(c) - j) % 256

\* a value that is an object around bytes (telethon's AuthKey), not bytes:
\* the sequence starts with an element no byte can be
IsObject(v) == Len(v) > 0 /\ v[1] = None

\* struct.pack refuses None and integers outside the width of the code, and
\* wants bytes for an "s" code
Packable(c, v) ==
    CASE c = "?" -> TRUE
      [] IsBytes(c) -> ~IsObject(v)
      [] c = "B" -> v # None /\ v >= 0 /\ v <= 255
      [] c = "H" -> v # None /\ v >= 0 /\ v <= 65535
      [] OTHER -> v # None /\ v >= 0

\* struct.pack(fmt, *vals)
pack(fmt, vals) ==
    IF \E k \in 1..Len(fmt) : ~Packable(fmt[k], vals[k])
    THEN [kind |-> "struct.error"]
    ELSE [kind |-> "ok",
          val |-> [i \in 1..calcsize(fmt) |->
                     LET k == FieldAt(fmt, i)
                     IN FieldByte(fmt[k], vals[k], i - Offset(fmt, k))]]

\* the value of field k of fmt read from bytes b
FieldValue(fmt, b, k) ==
    LET raw == SubSeq(b, Offset(fmt, k) + 1, Offset(fmt, k) + CodeSize(fmt[k]))
    IN CASE fmt[k] = "?" -> (raw[1] # 0)
         [] IsBytes(fmt[k]) -> raw
         [] OTHER -> IntOf(raw)

\* struct.unpack(fmt, b): struct.error unless len(b) == calcsize(fmt)
unpack(fmt, b) ==
    IF Len(b) # calcsize(fmt)
    THEN [kind |-> "struct.error"]
    ELSE [kind |-> "ok", val |-> [k \in 1..Len(fmt) |-> FieldValue(fmt, b, k)]]

\* base64.urlsafe_b64encode(b).decode(): data characters and "=" padding
b64encode(b) ==
    LET n == Len(b)
        nchars == (n \div 3) * 4 + (IF (n % 3) = 0 THEN 0 ELSE (n % 3) + 1)
        Byte(i) == IF i <= n THEN b[i] ELSE 0
        Quantum(g) == Byte(3 * g + 1) * 65536 + Byte(3 * g + 2) * 256 + Byte(3 * g + 3)
    IN [chars |-> [c \in 1..nchars |->
                     (Quantum((c - 1) \div 4) \div (64 ^ (3 - ((c - 1) % 4)))) % 64],
        pad |-> (3 - (n % 3)) % 3]

\* len(s) of a base64 str
StrLen(s) == Len(s.chars) + s.pad

\* s.rstrip("=")
rstrip(s) == [chars |-> s.chars, pad |-> 0]

\* s + "=" * (-len(s) % 4)
AddPadding(s) == [chars |-> s.chars, pad |-> s.pad + ((4 - (StrLen(s) % 4)) % 4)]

\* base64.urlsafe_b64decode(s): binascii.Error when the data characters cannot
\* be grouped or the padding is short, else the bytes
b64decode(s) ==
    LET d == Len(s.chars)
        need == (4 - (d % 4)) % 4
        n == (d \div 4) * 3 + (IF (d % 4) = 0 THEN 0 ELSE (d % 4) - 1)
        Char(i) == IF i <= d THEN s.chars[i] ELSE 0
        Quantum(g) == Char(4 * g + 1) * 262144 + Char(4 * g + 2) * 4096
                      + Char(4 * g + 3) * 64 + Char(4 * g + 4)
    IN IF (d % 4) = 1 \/ s.pad < need
       THEN [kind |-> "binascii.Error"]
       ELSE [kind |-> "ok",
             val |-> [i \in 1..n |->
                        (Quantum((i - 1) \div 3) \div (256 ^ (2 - ((i - 1) % 3)))) % 256]]


----------------------------------------------------------------------------
(* PyroSession: the binary string codec                                    *)

\* x or 0
Or0(x) == IF x = None \/ x = 0 THEN 0 ELSE x

\* x or 9999
Or9999(x) == IF x = None \/ x = 0 THEN 9999 ELSE x

\* dc_id, test_mode, auth_key, user_id (32b), is_bot
OLD_STRING_FORMAT == <<"B", "?", "256s", "I", "?">>
\* dc_id, test_mode, auth_key, user_id (64b), is_bot
OLD_STRING_FORMAT_64 == <<"B", "?", "256s", "Q", "?">>
\* dc_id, api_id, test_mode, auth_key, user_id (64b), is_bot
STRING_FORMAT == <<"B", "I", "?", "256s", "Q", "?">>

\* the encoded lengths the kurigram and the legacy implementation dispatch on
STRING_SIZE == 351
STRING_SIZE_64 == 356

\* PyroSession.__init__ of sessions/pyro.py and of the legacy package
PyroSession(dc_id, api_id, auth_key, user_id, is_bot, test_mode) ==
    [dc_id |-> dc_id, api_id |-> api_id, auth_key |-> auth_key,
     user_id |-> user_id, is_bot |-> is_bot, test_mode |-> test_mode]

\* FromOldFields with the api_id read as 0 instead of left unset
M_FromOldFields(v) == PyroSession(v[1], 0, v[3], v[4], v[5], v[2])

\* the record an old-layout unpack yields: api_id = None
FromOldFields(v) == PyroSession(v[1], None, v[3], v[4], v[5], v[2])

\* FromCurrentFields with is_bot and test_mode taken from each other's field
M_FromCurrentFields(v) == PyroSession(v[1], v[2], v[4], v[5], v[3], v[6])

\* the record a current-layout unpack yields
FromCurrentFields(v) == PyroSession(v[1], v[2], v[4], v[5], v[6], v[3])

\* pyro_from_string accepting every token of at least the current size: the
\* last test reads >= and the first 271 bytes are unpacked
M_pyro_from_string(session_string) ==
    LET decoded == b64decode(AddPadding(session_string))
        decoded_len == Len(decoded.val)
    IN IF decoded.kind # "ok" THEN decoded
       ELSE IF decoded_len = calcsize(OLD_STRING_FORMAT)
       THEN [kind |-> "ok",
             val |-> FromOldFields(unpack(OLD_STRING_FORMAT, decoded.val).val)]
       ELSE IF decoded_len = calcsize(OLD_STRING_FORMAT_64)
       THEN [kind |-> "ok",
             val |-> FromOldFields(unpack(OLD_STRING_FORMAT_64, decoded.val).val)]
       ELSE IF decoded_len >= calcsize(STRING_FORMAT)
       THEN [kind |-> "ok",
             val |-> FromCurrentFields(
                         unpack(STRING_FORMAT,
                                SubSeq(decoded.val, 1, calcsize(STRING_FORMAT))).val)]
       ELSE [kind |-> "ValidationError", len |-> decoded_len]

\* sessions/pyro.py, PyroSession.from_string: dispatch on the decoded length
pyro_from_string(session_string) ==
    LET decoded == b64decode(AddPadding(session_string))
        decoded_len == Len(decoded.val)
        old_format_len == calcsize(OLD_STRING_FORMAT)
        old_format_64_len == calcsize(OLD_STRING_FORMAT_64)
        current_format_len == calcsize(STRING_FORMAT)
    IN IF decoded.kind # "ok" THEN decoded
       ELSE IF decoded_len = old_format_len
       THEN [kind |-> "ok",
             val |-> FromOldFields(unpack(OLD_STRING_FORMAT, decoded.val).val)]
       ELSE IF decoded_len = old_format_64_len
       THEN [kind |-> "ok",
             val |-> FromOldFields(unpack(OLD_STRING_FORMAT_64, decoded.val).val)]
       ELSE IF decoded_len = current_format_len
       THEN [kind |-> "ok",
             val |-> FromCurrentFields(unpack(STRING_FORMAT, decoded.val).val)]
       ELSE [kind |-> "ValidationError", len |-> decoded_len]

\* kuri.py: the default addresses of the data centers, dict.get
NoAddress == "None"
TEST(dc) == CASE dc = 1 -> "149.154.175.10"
              [] dc = 2 -> "149.154.167.40"
              [] dc = 3 -> "149.154.175.117"
              [] OTHER -> NoAddress
PROD(dc) == CASE dc = 1 -> "149.154.175.53"
              [] dc = 2 -> "149.154.167.51"
              [] dc = 3 -> "149.154.175.100"
              [] dc = 4 -> "149.154.167.91"
              [] dc = 5 -> "91.108.56.130"
              [] dc = 203 -> "91.105.192.100"
              [] OTHER -> NoAddress

\* kuri.py, PyroSession.__init__ as from_string calls it (the date is left out)
KuriSession(dc_id, api_id, auth_key, user_id, is_bot, test_mode) ==
    [dc_id |-> dc_id, api_id |-> api_id, auth_key |-> auth_key,
     user_id |-> user_id, is_bot |-> is_bot, test_mode |-> test_mode,
     server_address |-> IF test_mode THEN TEST(dc_id) ELSE PROD(dc_id),
     port |-> IF test_mode THEN 80 ELSE 443]

\* kuri.py, PyroSession.from_string: dispatch on the length of the string
kuri_from_string(session_string) ==
    LET raw_bytes == b64decode(AddPadding(session_string))
        old == StrLen(session_string) \in {STRING_SIZE, STRING_SIZE_64}
        fmt == IF old
               THEN (IF StrLen(session_string) = STRING_SIZE_64
                     THEN OLD_STRING_FORMAT_64 ELSE OLD_STRING_FORMAT)
               ELSE STRING_FORMAT
        u == unpack(fmt, raw_bytes.val)
        v == IF old THEN FromOldFields(u.val) ELSE FromCurrentFields(u.val)
    IN IF raw_bytes.kind # "ok" THEN raw_bytes
       ELSE IF u.kind # "ok" THEN u
       ELSE [kind |-> "ok",
             val |-> KuriSession(v.dc_id, v.api_id, v.auth_key, v.user_id,
                                 v.is_bot, v.test_mode)]

\* manager/sessions/pyro.py, PyroSession.from_string
legacy_from_string(session_string) ==
    LET old == StrLen(session_string) \in {STRING_SIZE, STRING_SIZE_64}
        string_format == IF old
                         THEN (IF StrLen(session_string) = STRING_SIZE
                               THEN OLD_STRING_FORMAT ELSE OLD_STRING_FORMAT_64)
                         ELSE STRING_FORMAT
        decoded == b64decode(AddPadding(session_string))
        u == unpack(string_format, decoded.val)
    IN IF decoded.kind # "ok" THEN decoded
       ELSE IF u.kind # "ok" THEN u
       ELSE [kind |-> "ok",
             val |-> IF old THEN FromOldFields(u.val) ELSE FromCurrentFields(u.val)]

\* PyroSession.from_string of the imported implementation
from_string(p, session_string) ==
    CASE p = "pyro" -> pyro_from_string(session_string)
      [] p = "kuri" -> kuri_from_string(session_string)
      [] p = "legacy" -> legacy_from_string(session_string)

\* base64.urlsafe_b64encode(packed).decode().rstrip("="), or the pack error
Encoded(packed) ==
    IF packed.kind # "ok" THEN packed
    ELSE [kind |-> "ok", val |-> rstrip(b64encode(packed.val))]

\* sessions/pyro.py and kuri.py, PyroSession.to_string
pyro_to_string(self) ==
    Encoded(pack(STRING_FORMAT,
                 <<self.dc_id, Or0(self.api_id), self.test_mode, self.auth_key,
                   Or0(self.user_id), self.is_bot>>))

\* manager/sessions/pyro.py, PyroSession.to_string
legacy_to_string(self) ==
    Encoded(pack(STRING_FORMAT,
                 <<self.dc_id, Or0(self.api_id), self.test_mode, self.auth_key,
                   Or9999(self.user_id), self.is_bot>>))

\* PyroSession.to_string of the imported implementation
to_string(p, self) ==
    IF p = "legacy" THEN legacy_to_string(self) ELSE pyro_to_string(self)

----------------------------------------------------------------------------
(* The values the calls are tried on                                       *)

Packages == {"pyro", "kuri", "legacy"}

KeyLen == 256

\* an auth key of 256 bytes, no two neighbouring bytes alike
Key(k) == [i \in 1..KeyLen |-> (k * i) % 256]

AuthKeys == {Key(k) : k \in 1..NumKeys}
DcIds == {2, 4}
UserIds == {None, 0, 112233445}
ApiIds == {None, 0, 12345}

Records ==
    {PyroSession(dc, api, key, uid, bot, test) :
        dc \in DcIds, api \in ApiIds, key \in AuthKeys, uid \in UserIds,
        bot \in BOOLEAN, test \in BOOLEAN}

\* what an old-layout string can carry: an integer user_id and no api_id
OldRecords == {r \in Records : r.user_id # None /\ r.api_id = None}

NoRecord == PyroSession(None, None, <<>>, None, FALSE, FALSE)

LayoutSizes ==
    {calcsize(OLD_STRING_FORMAT), calcsize(OLD_STRING_FORMAT_64), calcsize(STRING_FORMAT)}

\* decoded lengths of the raw tokens: near a layout size, never one
RawLens ==
    {n + d : n \in LayoutSizes, d \in (0 - MaxSlack)..MaxSlack} \ LayoutSizes

\* n bytes whose first six and last bytes are zero
RawBytes(n) == [i \in 1..n |-> IF i > 6 /\ i <= 262 THEN (7 * i) % 256 ELSE 0]

NoToken == [s |-> [chars |-> <<>>, pad |-> 0], layout |-> "none", rec |-> NoRecord]
NoCall == [op |-> "none"]

----------------------------------------------------------------------------
(* The string codec as a state machine. Each behaviour is one conversion:   *)
(* a token comes into being (written by to_string, or received from        *)
(* elsewhere), and is then decoded.                                        *)

Init ==
    /\ pkg \in Packages
    /\ tok = NoToken
    /\ call = NoCall
    /\ fs = <<>>
    /\ mgr = <<>>

\* a caller encodes a record with PyroSession.to_string
PyroToString ==
    \E r \in Records :
        LET res == to_string(pkg, r)
        IN /\ tok = NoToken
           /\ call' = [op |-> "to_string", rec |-> r, res |-> res]
           /\ tok' = IF res.kind = "ok"
                     THEN [s |-> res.val, layout |-> "current", rec |-> r]
                     ELSE tok
           /\ UNCHANGED <<pkg, fs, mgr>>

\* a token of an old layout arrives, as older clients wrote it, padded or not
OldToken ==
    \E r \in OldRecords, wide \in BOOLEAN, padded \in BOOLEAN :
        LET fmt == IF wide THEN OLD_STRING_FORMAT_64 ELSE OLD_STRING_FORMAT
            s == b64encode(pack(fmt, <<r.dc_id, r.test_mode, r.auth_key,
                                       r.user_id, r.is_bot>>).val)
        IN /\ tok = NoToken
           /\ tok' = [s |-> IF padded THEN s ELSE rstrip(s),
                      layout |-> IF wide THEN "old64" ELSE "old32",
                      rec |-> r]
           /\ call' = NoCall
           /\ UNCHANGED <<pkg, fs, mgr>>

\* a token that is base64 of some other number of bytes arrives
RawToken ==
    \E n \in RawLens, padded \in BOOLEAN :
        LET s == b64encode(RawBytes(n))
        IN /\ tok = NoToken
           /\ tok' = [s |-> IF padded THEN s ELSE rstrip(s),
                      layout |-> "raw", rec |-> NoRecord]
           /\ call' = NoCall
           /\ UNCHANGED <<pkg, fs, mgr>>

\* the holder of a token written by to_string puts the "=" padding back
PadToken ==
    /\ tok.layout = "current"
    /\ tok.s.pad = 0
    /\ tok' = [tok EXCEPT !.s = AddPadding(tok.s)]
    /\ call' = NoCall
    /\ UNCHANGED <<pkg, fs, mgr>>

\* a caller decodes the token at hand with PyroSession.from_string
PyroFromString ==
    /\ tok.layout # "none"
    /\ call' = [op |-> "from_string", tok |-> tok, res |-> from_string(pkg, tok.s)]
    /\ UNCHANGED <<pkg, tok, fs, mgr>>

NextString == PyroToString \/ OldToken \/ RawToken \/ PadToken \/ PyroFromString

SpecString == Init /\ [][NextString]_vars


----------------------------------------------------------------------------
(* Claims about the binary string codec                                    *)

\* len(base64.urlsafe_b64decode(s + "=" * (-len(s) % 4)))
DecodedLen(s) == Len(b64decode(AddPadding(s)).val)

\* the six fields of a decoded record equal those of record r
SameSix(v, r) ==
    /\ v.dc_id = r.dc_id
    /\ v.auth_key = r.auth_key
    /\ v.user_id = r.user_id
    /\ v.is_bot = r.is_bot
    /\ v.test_mode = r.test_mode
    /\ v.api_id = r.api_id

AllSet(r) == r.user_id # None /\ r.api_id # None /\ Len(r.auth_key) = KeyLen

\* a from_string call on a token that to_string wrote for a record with all
\* fields set has completed
C1_Case ==
    /\ pkg = "pyro"
    /\ call.op = "from_string"
    /\ call.tok.layout = "current"
    /\ AllSet(call.tok.rec)

\* C1: for every record with dc_id, a 256-byte auth_key, user_id, is_bot,
\* test_mode and api_id all set, from_string(to_string(record)) of
\* sessions/pyro.py returns a record with exactly the same six fields.
C1_RoundTrip ==
    C1_Case => call.res.kind = "ok" /\ SameSix(call.res.val, call.tok.rec)

C1_Witness ==
    /\ C1_Case
    /\ call.res.kind = "ok"
    /\ call.res.val.user_id = 112233445
    /\ call.res.val.api_id = 12345
    /\ call.res.val.is_bot
    /\ ~call.res.val.test_mode

\* C2: from_string (sessions/pyro.py and pyro/kuri.py) on a token whose decoded
\* length is none of 263, 267, 271 fails with a ValidationError that reports
\* the observed decoded length, and returns no record.
C2_LengthRejected ==
    (/\ pkg \in {"pyro", "kuri"}
     /\ call.op = "from_string"
     /\ DecodedLen(call.tok.s) \notin {263, 267, 271})
    => /\ call.res.kind = "ValidationError"
       /\ call.res.len = DecodedLen(call.tok.s)

\* a from_string call of sessions/pyro.py on a token of 263 or 267 decoded
\* bytes has completed
C3_Case ==
    /\ pkg = "pyro"
    /\ call.op = "from_string"
    /\ DecodedLen(call.tok.s) \in {263, 267}

\* C3: from_string of sessions/pyro.py on a token whose decoded length is
\* exactly 263 (old-32) or 267 (old-64) bytes returns a record with api_id
\* unset and dc_id, test_mode, auth_key, user_id, is_bot as packed.
C3_OldLayouts ==
    C3_Case => /\ call.res.kind = "ok"
               /\ call.res.val.api_id = None
               /\ SameSix(call.res.val, call.tok.rec)

C3_Witness ==
    /\ C3_Case
    /\ call.tok.layout = "old32"
    /\ call.tok.s.pad = 1
    /\ call.res.kind = "ok"
    /\ call.res.val.user_id = 112233445
    /\ call.res.val.test_mode

C3_Witness64 ==
    /\ C3_Case
    /\ call.tok.layout = "old64"
    /\ call.res.kind = "ok"
    /\ call.res.val.user_id = 112233445

\* C4 as claimed: from_string on a token whose decoded length is neither 263
\* nor 267 decodes the bytes under the current layout and assigns api_id from
\* the decoded bytes.
C4_AnyOtherLengthDecodes ==
    (/\ call.op = "from_string"
     /\ DecodedLen(call.tok.s) \notin {263, 267})
    => /\ call.res.kind = "ok"
       /\ call.res.val.api_id = IntOf(SubSeq(b64decode(AddPadding(call.tok.s)).val, 2, 5))

\* C4 as amended: in every implementation, from_string on a token whose
\* decoded length is exactly 271 decodes the bytes under the current layout
\* and assigns api_id from the decoded bytes; a token whose decoded length is
\* none of 263, 267, 271 yields no record.
C4_CurrentLayout ==
    call.op = "from_string" =>
        LET n == DecodedLen(call.tok.s)
        IN /\ n = 271 =>
                /\ call.res.kind = "ok"
                /\ call.res.val.api_id =
                       IntOf(SubSeq(b64decode(AddPadding(call.tok.s)).val, 2, 5))
                /\ call.res.val.api_id = Or0(call.tok.rec.api_id)
                /\ call.res.val.dc_id = call.tok.rec.dc_id
                /\ call.res.val.auth_key = call.tok.rec.auth_key
                /\ call.res.val.test_mode = call.tok.rec.test_mode
                /\ call.res.val.is_bot = call.tok.rec.is_bot
           /\ n \notin {263, 267, 271} => call.res.kind # "ok"

C4_Witness ==
    /\ call.op = "from_string"
    /\ DecodedLen(call.tok.s) = 271
    /\ call.tok.s.pad = 2
    /\ call.res.kind = "ok"
    /\ call.res.val.api_id = 12345

C4_WitnessRejected ==
    /\ call.op = "from_string"
    /\ DecodedLen(call.tok.s) = 270
    /\ call.res.kind # "ok"

\* C5: to_string of a record whose user_id is unset succeeds and always emits
\* the current 271-byte layout, and decoding the token yields user_id = 0; an
\* unset api_id likewise decodes as 0.
C5_ZeroSentinel ==
    /\ (call.op = "to_string" /\ (call.rec.user_id = None \/ call.rec.api_id = None))
       => call.res.kind = "ok" /\ DecodedLen(call.res.val) = 271
    /\ (call.op = "from_string" /\ call.tok.layout = "current")
       => /\ call.res.kind = "ok"
          /\ call.tok.rec.user_id = None => call.res.val.user_id = 0
          /\ call.tok.rec.api_id = None => call.res.val.api_id = 0


----------------------------------------------------------------------------
(* PyroSession: the relational file codec. A file is absent, or holds      *)
(* bytes that are no database ("garbage"), or is an SQLite database: its   *)
(* tables (name -> set of column names) and the rows of the tables the     *)
(* codecs read. A row is a function from column names to values; NULL is   *)
(* None and booleans are stored as 0 and 1.                                *)

Absent == [kind |-> "absent"]
Garbage == [kind |-> "garbage"]
Db(tables, sessions, version, entities) ==
    [kind |-> "db", tables |-> tables, sessions |-> sessions,
     version |-> version, entities |-> entities]

\* what sqlite leaves at a path it connected to where no file was
EmptyDb == Db(<<>>, <<>>, <<>>, <<>>)

\* sessions/pyro.py: SCHEMA, and PyroSession.TABLES which repeats it
PyroSchema ==
    [sessions |-> {"dc_id", "api_id", "test_mode", "auth_key", "date", "user_id", "is_bot"},
     peers |-> {"id", "access_hash", "type", "username", "phone_number", "last_update_on"},
     version |-> {"number"}]

\* pyro/kuri.py: SCHEMA
KuriSchema ==
    [sessions |-> {"dc_id", "server_address", "port", "api_id", "test_mode",
                   "auth_key", "date", "user_id", "is_bot"},
     peers |-> {"id", "access_hash", "type", "phone_number", "last_update_on"},
     usernames |-> {"id", "username"},
     update_state |-> {"id", "pts", "qts", "date", "seq"},
     version |-> {"number"}]

\* the order in which executescript(SCHEMA) creates the tables
PyroSchemaOrder == <<"sessions", "peers", "version">>
KuriSchemaOrder == <<"sessions", "peers", "usernames", "update_state", "version">>

Schema(p) == IF p = "kuri" THEN KuriSchema ELSE PyroSchema
SchemaOrder(p) == IF p = "kuri" THEN KuriSchemaOrder ELSE PyroSchemaOrder

\* pyro/kuri.py: PyroSession.TABLES and the columns validate expects of sessions
KuriTables == {"sessions", "peers", "usernames", "update_state", "version"}
KuriExpected == {"dc_id", "server_address", "port", "api_id", "test_mode",
                 "auth_key", "date", "user_id", "is_bot"}

\* the time of the call, int(time.time())
TEST_DATE == 1678886400

BoolToSql(b) == IF b THEN 1 ELSE 0

\* SELECT name FROM sqlite_master WHERE type='table'
TableNames(f) == DOMAIN f.tables

\* sessions/pyro.py, PyroSession.validate: the table set and every column set
\* must equal TABLES
pyro_validate(f) ==
    IF f.kind = "garbage" THEN FALSE
    ELSE LET tables == IF f.kind = "absent" THEN {} ELSE TableNames(f)
         IN IF tables # DOMAIN PyroSchema THEN FALSE
            ELSE \A table \in DOMAIN PyroSchema : PyroSchema[table] = f.tables[table]

\* pyro/kuri.py, PyroSession.validate: the tables must be there, and the
\* columns of sessions
kuri_validate(f) ==
    IF f.kind = "garbage" THEN FALSE
    ELSE LET tables == IF f.kind = "absent" THEN {} ELSE TableNames(f)
         IN IF ~(KuriTables \subseteq tables) THEN FALSE
            ELSE KuriExpected \subseteq f.tables["sessions"]

validate(p, f) == IF p = "kuri" THEN kuri_validate(f) ELSE pyro_validate(f)

\* the file a connection leaves behind when it only reads: sqlite creates an
\* empty database where no file was
AfterConnect(f) == IF f.kind = "absent" THEN EmptyDb ELSE f

\* the keyword parameters of PyroSession.__init__
InitParams(p) ==
    IF p = "kuri"
    THEN {"dc_id", "auth_key", "api_id", "user_id", "is_bot", "test_mode",
          "server_address", "port", "date"}
    ELSE {"dc_id", "auth_key", "user_id", "is_bot", "test_mode", "api_id", "date"}

\* cls(**session): the parameters a row does not name keep their defaults
Arg(row, name, default) == IF name \in DOMAIN row THEN row[name] ELSE default

\* sqlite hands is_bot and test_mode back as the integers it stored. Python
\* has 1 == True and 0 == False, and struct's "?", a truth test and ==
\* treat the two alike, so the record holds the boolean the integer equals
\* (a NULL is falsy)
SqlToBool(v) == v \notin {None, 0}

RowSession(p, row) ==
    IF p = "kuri"
    THEN [dc_id |-> row["dc_id"], api_id |-> Arg(row, "api_id", None),
          auth_key |-> row["auth_key"], user_id |-> Arg(row, "user_id", None),
          is_bot |-> SqlToBool(Arg(row, "is_bot", 0)),
          test_mode |-> SqlToBool(Arg(row, "test_mode", 0)),
          server_address |->
              IF Arg(row, "server_address", NoAddress) # NoAddress
              THEN row["server_address"]
              ELSE IF Arg(row, "test_mode", 0) # 0
                   THEN TEST(row["dc_id"]) ELSE PROD(row["dc_id"]),
          port |-> IF Arg(row, "port", None) \notin {None, 0} THEN row["port"]
                   ELSE IF Arg(row, "test_mode", 0) # 0 THEN 80 ELSE 443]
    ELSE PyroSession(row["dc_id"], Arg(row, "api_id", None), row["auth_key"],
                     Arg(row, "user_id", None), SqlToBool(Arg(row, "is_bot", 0)),
                     SqlToBool(Arg(row, "test_mode", 0)))

\* PyroSession.from_file: ValidationError unless validate passes, then the
\* first row of sessions handed to the constructor
from_file(p, f) ==
    IF ~validate(p, f) THEN [kind |-> "ValidationError"]
    ELSE IF Len(f.sessions) = 0 THEN [kind |-> "TypeError"]
    ELSE LET session == f.sessions[1]
         IN IF ~(DOMAIN session \subseteq InitParams(p))
               \/ ~({"dc_id", "auth_key"} \subseteq DOMAIN session)
            THEN [kind |-> "TypeError"]
            ELSE [kind |-> "ok", val |-> RowSession(p, session)]

\* the row PyroSession.to_file inserts into sessions
SessionRow(p, self) ==
    IF p = "kuri"
    THEN [dc_id |-> self.dc_id, server_address |-> self.server_address,
          port |-> self.port, api_id |-> self.api_id,
          test_mode |-> BoolToSql(self.test_mode), auth_key |-> self.auth_key,
          date |-> TEST_DATE, user_id |-> self.user_id,
          is_bot |-> BoolToSql(self.is_bot)]
    ELSE [dc_id |-> self.dc_id, api_id |-> self.api_id,
          test_mode |-> BoolToSql(self.test_mode), auth_key |-> self.auth_key,
          date |-> TEST_DATE, user_id |-> Or0(self.user_id),
          is_bot |-> BoolToSql(self.is_bot)]

\* the number to_file inserts into version
SchemaVersion(p) == IF p = "kuri" THEN 7 ELSE 5

\* the tables of SCHEMA that executescript creates before it meets one that
\* exists already (all of them when none exists)
RECURSIVE Created(_, _, _)
Created(order, k, have) ==
    IF k > Len(order) \/ order[k] \in have THEN {}
    ELSE {order[k]} \cup Created(order, k + 1, have)

\* a to_file whose script creates only the tables that are missing, and which
\* then inserts its rows next to those that are there
M_to_file(p, self, f) ==
    IF f.kind = "garbage"
    THEN [res |-> [kind |-> "sqlite3.DatabaseError"], file |-> f]
    ELSE LET g == AfterConnect(f)
             tables == [t \in TableNames(g) \cup DOMAIN Schema(p) |->
                          IF t \in TableNames(g) THEN g.tables[t] ELSE Schema(p)[t]]
         IN [res |-> [kind |-> "ok"],
             file |-> [g EXCEPT !.tables = tables,
                                !.sessions = Append(@, SessionRow(p, self)),
                                !.version = Append(@, SchemaVersion(p))]]

\* PyroSession.to_file: the outcome and the file it leaves
to_file(p, self, f) ==
    IF f.kind = "garbage"
    THEN [res |-> [kind |-> "sqlite3.DatabaseError"], file |-> f]
    ELSE LET g == AfterConnect(f)
             made == Created(SchemaOrder(p), 1, TableNames(g))
             tables == [t \in TableNames(g) \cup made |->
                          IF t \in TableNames(g) THEN g.tables[t] ELSE Schema(p)[t]]
         IN IF made # DOMAIN Schema(p)
            THEN [res |-> [kind |-> "sqlite3.OperationalError"],
                  file |-> [g EXCEPT !.tables = tables]]
            ELSE [res |-> [kind |-> "ok"],
                  file |-> [g EXCEPT !.tables = tables,
                                     !.sessions = <<SessionRow(p, self)>>,
                                     !.version = <<SchemaVersion(p)>>]]

----------------------------------------------------------------------------
(* The files the decoders are tried on                                     *)

SessionPath == "a.session"
\* a folder, the folder "tdata" in it, and the folder "tdata" in that
FolderChain == <<"out", "out/tdata", "out/tdata/tdata">>
FolderPaths == {FolderChain[i] : i \in 1..Len(FolderChain)}
AllPaths == {SessionPath} \cup FolderPaths

\* an auth key one byte short of KeyLen
ShortKey == SubSeq(Key(1), 1, KeyLen - 1)
ShortRecord == PyroSession(2, 12345, ShortKey, 112233445, FALSE, FALSE)

FileRecords ==
    {r \in Records : r.dc_id = 2 /\ r.user_id # 0 /\ r.api_id # 0}
    \cup {ShortRecord}

\* the object PyroSession(...) constructs from the fields of r
Construct(p, r) ==
    IF p = "kuri"
    THEN KuriSession(r.dc_id, r.api_id, r.auth_key, r.user_id, r.is_bot, r.test_mode)
    ELSE r

\* a table set with one more table
ExtraTable(S) == S @@ ("extra" :> {"id"})
\* a table set without table t
MissingTable(S, t) == [x \in (DOMAIN S) \ {t} |-> S[x]]
\* table t with one more column
ExtraColumn(S, t) == [S EXCEPT ![t] = @ \cup {"extra"}]
\* table t without column c
MissingColumn(S, t, c) == [S EXCEPT ![t] = @ \ {c}]

\* the table sets that differ from S in one table or one column
OneOff(S) ==
    {ExtraTable(S)}
    \cup {MissingTable(S, t) : t \in DOMAIN S}
    \cup {ExtraColumn(S, t) : t \in DOMAIN S}
    \cup UNION {{MissingColumn(S, t, c) : c \in S[t]} :
                   t \in {x \in DOMAIN S : Cardinality(S[x]) > 1}}

\* row fitted to the columns cols: columns it lacks are NULL
FitRow(row, cols) == [c \in cols |-> IF c \in DOMAIN row THEN row[c] ELSE None]

\* a database with tables T whose sessions table (if any) holds the rows
DbWith(T, rows, version) ==
    Db(T,
       IF "sessions" \in DOMAIN T
       THEN [i \in 1..Len(rows) |-> FitRow(rows[i], T["sessions"])] ELSE <<>>,
       IF "version" \in DOMAIN T THEN version ELSE <<>>,
       <<>>)

SampleRecord == PyroSession(2, 12345, Key(1), 112233445, FALSE, FALSE)

\* the files found at the path: written by a client of the imported kind
\* (with a row, or without), or one table or column away from that, or
\* written for the other kind of client, or holding a key of another
\* length, or no database at all
PyroFiles(p) ==
    {Garbage, EmptyDb,
     DbWith(Schema(p), <<SessionRow(p, Construct(p, ShortRecord))>>,
            <<SchemaVersion(p)>>)}
    \cup {DbWith(T, rows, <<SchemaVersion(p)>>) :
             T \in {Schema(p)} \cup OneOff(Schema(p)),
             rows \in {<<>>, <<SessionRow(p, Construct(p, SampleRecord))>>}}
    \cup {DbWith(Schema(q), <<SessionRow(q, Construct(q, SampleRecord))>>,
                 <<SchemaVersion(q)>>) : q \in {"pyro", "kuri"} \ {p}}

NoFiles == [path \in AllPaths |-> Absent]

----------------------------------------------------------------------------
(* The file codec as a state machine                                       *)

InitFile ==
    /\ pkg \in {"pyro", "kuri"}
    /\ tok = NoToken
    /\ call = NoCall
    /\ fs = NoFiles
    /\ mgr = <<>>

\* some program leaves a file at the path
PlaceFile ==
    /\ fs[SessionPath] = Absent
    /\ call = NoCall
    /\ \E f \in PyroFiles(pkg) : fs' = [fs EXCEPT ![SessionPath] = f]
    /\ UNCHANGED <<pkg, tok, call, mgr>>

\* a caller runs PyroSession.validate(path); PyroSession connects under
\* "async with", which closes the connection on every way out
PyroValidate ==
    /\ call' = [op |-> "validate", before |-> fs[SessionPath], conns |-> 0,
                res |-> [kind |-> "ok", val |-> validate(pkg, fs[SessionPath])]]
    /\ fs' = [fs EXCEPT ![SessionPath] =
                 IF @.kind = "garbage" THEN @ ELSE AfterConnect(@)]
    /\ UNCHANGED <<pkg, tok, mgr>>

\* a caller runs PyroSession.from_file(path)
PyroFromFile ==
    /\ call' = [op |-> "from_file", before |-> fs[SessionPath], conns |-> 0,
                res |-> from_file(pkg, fs[SessionPath])]
    /\ fs' = [fs EXCEPT ![SessionPath] =
                 IF @.kind = "garbage" THEN @ ELSE AfterConnect(@)]
    /\ UNCHANGED <<pkg, tok, mgr>>

\* a caller runs PyroSession(...).to_file(path)
PyroToFile ==
    \E r \in FileRecords :
        LET out == to_file(pkg, Construct(pkg, r), fs[SessionPath])
        IN /\ call' = [op |-> "to_file", before |-> fs[SessionPath], rec |-> r,
                       res |-> out.res, conns |-> 0]
           /\ fs' = [fs EXCEPT ![SessionPath] = out.file]
           /\ UNCHANGED <<pkg, tok, mgr>>

NextFile == PlaceFile \/ PyroValidate \/ PyroFromFile \/ PyroToFile

SpecFile == InitFile /\ [][NextFile]_vars

----------------------------------------------------------------------------
(* Claims about the relational file codec                                  *)

\* C6: PyroSession.from_file (sessions/pyro.py and pyro/kuri.py) returns a
\* record only if the file's table-name set equals the expected table set and,
\* for every expected table, the file's column-name set equals the expected
\* column set; a file that differs by one extra table, or by one missing or
\* one extra column, makes from_file raise ValidationError.
C6_StrictSchema ==
    call.op = "from_file" =>
        /\ call.res.kind = "ok" =>
              /\ call.before.kind = "db"
              /\ call.before.tables = Schema(pkg)
        /\ (/\ call.before.kind = "db"
            /\ call.before.tables \in
                  {ExtraTable(Schema(pkg))}
                  \cup {ExtraColumn(Schema(pkg), t) : t \in DOMAIN Schema(pkg)}
                  \cup UNION {{MissingColumn(Schema(pkg), t, c) : c \in Schema(pkg)[t]} :
                                 t \in {x \in DOMAIN Schema(pkg) :
                                           Cardinality(Schema(pkg)[x]) > 1}})
           => call.res.kind = "ValidationError"

\* C16: an auth_key is always exactly 256 bytes. Every record PyroSession's
\* from_file returns has a 256-byte auth_key, and from_file and to_file fail
\* when the key they meet (in the row, in the record) has another length,
\* rather than pass it on or store it.
C16_KeyLength ==
    /\ (call.op = "from_file" /\ call.res.kind = "ok")
           => Len(call.res.val.auth_key) = KeyLen
    /\ (/\ call.op = "from_file"
        /\ call.before.kind = "db"
        /\ call.before.tables = Schema(pkg)
        /\ Len(call.before.sessions) > 0
        /\ Len(call.before.sessions[1].auth_key) # KeyLen)
           => call.res.kind # "ok"
    /\ (call.op = "to_file" /\ Len(call.rec.auth_key) # KeyLen)
           => call.res.kind # "ok"

\* C23: for every record, PyroSession.to_file on a path where no file is,
\* followed by PyroSession.from_file of that path, succeeds and returns the
\* same dc_id, api_id, auth_key, is_bot and test_mode, and the same user_id
\* when it was set; an unset user_id is stored as 0 and reads back as 0.
C23_FileRoundTrip ==
    /\ (call.op = "to_file" /\ call.before = Absent) => call.res.kind = "ok"
    /\ call.op = "from_file" =>
          \A r \in FileRecords :
              call.before = to_file(pkg, Construct(pkg, r), Absent).file =>
                  /\ call.res.kind = "ok"
                  /\ call.res.val.dc_id = r.dc_id
                  /\ call.res.val.api_id = r.api_id
                  /\ call.res.val.auth_key = r.auth_key
                  /\ call.res.val.is_bot = r.is_bot
                  /\ call.res.val.test_mode = r.test_mode
                  /\ call.res.val.user_id = IF r.user_id = None THEN 0 ELSE r.user_id

----------------------------------------------------------------------------
(* TeleSession: the relational file codec. sessions/tele.py loads the file *)
(* through Telethon's SQLiteSession; manager/sessions/tele.py reads it     *)
(* with its own validate.                                                  *)

\* TeleSession.TABLES
TeleSchema ==
    [sessions |-> {"dc_id", "server_address", "port", "auth_key", "takeout_id"},
     entities |-> {"id", "hash", "username", "phone", "name", "date"},
     sent_files |-> {"md5_digest", "file_size", "type", "id", "hash"},
     update_state |-> {"id", "pts", "qts", "date", "seq"},
     version |-> {"version"}]

\* the order in which SQLiteSession creates the tables of a new file
TeleSchemaOrder == <<"version", "sessions", "entities", "sent_files", "update_state">>

\* the version number SQLiteSession writes and expects
TeleVersion == 7

\* an auth_key that is None (kept a sequence, as the keys are)
NoneKey == <<None>>

\* telethon's AuthKey object around the key bytes (AuthKey.__eq__ holds
\* between AuthKey objects only, never with bytes)
AuthKeyObj(data) == <<None>> \o data
\* auth_key.key
KeyOf(auth_key) == Tail(auth_key)

\* the row SQLiteSession writes for a session that has no key yet
BlankRow ==
    [dc_id |-> 0, server_address |-> NoAddress, port |-> None,
     auth_key |-> <<>>, takeout_id |-> None]

\* SQLiteSession(str(path)): the loaded session, or the exception of the
\* load, and the file the load leaves. A file with a version table is read
\* (one row of five values from sessions); any other file is initialised as
\* a new session. Files of an older version are upgraded first; the files
\* tried here are at TeleVersion.
SQLiteSession(f) ==
    IF f.kind = "garbage"
    THEN [res |-> [kind |-> "sqlite3.DatabaseError"], file |-> f]
    ELSE LET g == AfterConnect(f)
         IN IF "version" \in TableNames(g)
            THEN IF "version" \notin g.tables["version"]
                 THEN [res |-> [kind |-> "sqlite3.OperationalError"], file |-> g]
                 ELSE IF Len(g.version) = 0
                 THEN [res |-> [kind |-> "TypeError"], file |-> g]
                 ELSE IF "sessions" \notin TableNames(g)
                 THEN [res |-> [kind |-> "sqlite3.OperationalError"], file |-> g]
                 ELSE IF Len(g.sessions) = 0
                 THEN [res |-> [kind |-> "ok", val |-> [BlankRow EXCEPT !.auth_key = NoneKey]],
                       file |-> g]
                 ELSE IF Cardinality(DOMAIN g.sessions[1]) # 5
                 THEN [res |-> [kind |-> "ValueError"], file |-> g]
                 ELSE [res |-> [kind |-> "ok",
                                val |-> [c \in DOMAIN BlankRow |-> g.sessions[1][c]]],
                       file |-> g]
            ELSE LET made == Created(TeleSchemaOrder, 1, TableNames(g))
                     tables == [t \in TableNames(g) \cup made |->
                                  IF t \in TableNames(g) THEN g.tables[t]
                                  ELSE TeleSchema[t]]
                 IN IF made # DOMAIN TeleSchema
                    THEN [res |-> [kind |-> "sqlite3.OperationalError"],
                          file |-> [g EXCEPT !.tables = tables]]
                    ELSE [res |-> [kind |-> "ok", val |-> [BlankRow EXCEPT !.auth_key = NoneKey]],
                          file |-> [g EXCEPT !.tables = tables,
                                             !.sessions = <<BlankRow>>,
                                             !.version = <<TeleVersion>>]]

\* bool(session_file.auth_key): a key that is there and not empty
HasKey(session) == session.auth_key # NoneKey /\ session.auth_key # <<>>

\* TeleSession(...) of sessions/tele.py
TeleSession(dc_id, auth_key, server_address, port, takeout_id, user_id, phone_number) ==
    [dc_id |-> dc_id, auth_key |-> auth_key, server_address |-> server_address,
     port |-> port, takeout_id |-> takeout_id, user_id |-> user_id,
     phone_number |-> phone_number]

\* a from_file that fills user_id and phone_number from the entities table
M_tele_from_file(f) ==
    LET loaded == SQLiteSession(f)
    IN IF loaded.res.kind # "ok" THEN loaded
       ELSE IF ~HasKey(loaded.res.val)
       THEN [res |-> [kind |-> "ValidationError"], file |-> loaded.file]
       ELSE LET own == IF Len(loaded.file.entities) > 0
                       THEN loaded.file.entities[1]
                       ELSE [id |-> None, phone |-> None]
            IN [res |-> [kind |-> "ok",
                         val |-> TeleSession(loaded.res.val.dc_id,
                                             AuthKeyObj(loaded.res.val.auth_key),
                                             loaded.res.val.server_address,
                                             loaded.res.val.port,
                                             loaded.res.val.takeout_id,
                                             own.id, own.phone)],
                file |-> loaded.file]

\* sessions/tele.py, TeleSession.from_file: the outcome and the file it leaves
tele_from_file(f) ==
    LET loaded == SQLiteSession(f)
    IN IF loaded.res.kind # "ok" THEN loaded
       ELSE IF ~HasKey(loaded.res.val)
       THEN [res |-> [kind |-> "ValidationError"], file |-> loaded.file]
       ELSE [res |-> [kind |-> "ok",
                      val |-> TeleSession(loaded.res.val.dc_id,
                                          AuthKeyObj(loaded.res.val.auth_key),
                                          loaded.res.val.server_address,
                                          loaded.res.val.port,
                                          loaded.res.val.takeout_id,
                                          None, None)],
             file |-> loaded.file]

\* manager/sessions/tele.py, TeleSession.validate
legacy_tele_validate(f) ==
    IF f.kind = "garbage" THEN FALSE
    ELSE LET tables == IF f.kind = "absent" THEN {} ELSE TableNames(f)
         IN IF tables # DOMAIN TeleSchema THEN FALSE
            ELSE \A table \in DOMAIN TeleSchema : TeleSchema[table] = f.tables[table]

\* manager/sessions/tele.py, TeleSession.from_file
legacy_tele_from_file(f) ==
    LET g == IF f.kind = "garbage" THEN f ELSE AfterConnect(f)
    IN IF ~legacy_tele_validate(f)
       THEN [res |-> [kind |-> "ValidationError"], file |-> g]
       ELSE IF Len(f.sessions) = 0
       THEN [res |-> [kind |-> "TypeError"], file |-> g]
       ELSE [res |-> [kind |-> "ok",
                      val |-> [c \in DOMAIN BlankRow |-> f.sessions[1][c]]],
             file |-> g]

\* the TeleSession of the package in use
TeleFromFile(p, f) ==
    IF p = "legacy" THEN legacy_tele_from_file(f) ELSE tele_from_file(f)

----------------------------------------------------------------------------
(* The files TeleSession.from_file is tried on                             *)

TEST_SERVER_ADDRESS == "149.154.167.91"
TEST_PORT == 443
TEST_TAKEOUT_ID == 12345
TEST_USER_ID == 112233445
TEST_PHONE == 15550001

\* the rows a Telethon client leaves in sessions: a logged-in session, a
\* session without a key, or none
TeleRows ==
    {<<>>, <<BlankRow>>}
    \cup {<<[dc_id |-> 2, server_address |-> TEST_SERVER_ADDRESS, port |-> TEST_PORT,
             auth_key |-> k, takeout_id |-> t]>> :
             k \in AuthKeys, t \in {None, TEST_TAKEOUT_ID}}

\* the entities table with and without the account's own entity
TeleEntities ==
    {<<>>, <<[id |-> TEST_USER_ID, hash |-> 0, username |-> None,
              phone |-> TEST_PHONE, name |-> None, date |-> TEST_DATE]>>}

TeleDb(T, rows, ents) ==
    Db(T,
       IF "sessions" \in DOMAIN T
       THEN [i \in 1..Len(rows) |-> FitRow(rows[i], T["sessions"])] ELSE <<>>,
       IF "version" \in DOMAIN T THEN <<TeleVersion>> ELSE <<>>,
       IF "entities" \in DOMAIN T
       THEN [i \in 1..Len(ents) |-> FitRow(ents[i], T["entities"])] ELSE <<>>)

TeleFiles ==
    {Garbage, EmptyDb}
    \cup {TeleDb(T, rows, ents) :
             T \in {TeleSchema} \cup OneOff(TeleSchema),
             rows \in TeleRows, ents \in TeleEntities}

----------------------------------------------------------------------------
(* TeleSession.from_file as a state machine                                *)

InitTele ==
    /\ pkg \in {"pyro", "legacy"}
    /\ tok = NoToken
    /\ call = NoCall
    /\ fs = NoFiles
    /\ mgr = <<>>

\* a Telethon client, or some other program, leaves a file at the path
PlaceTeleFile ==
    /\ fs[SessionPath] = Absent
    /\ call = NoCall
    /\ \E f \in TeleFiles : fs' = [fs EXCEPT ![SessionPath] = f]
    /\ UNCHANGED <<pkg, tok, call, mgr>>

\* the connections a call of sessions/tele.py leaves open. The SQLiteSession
\* it builds connects in its constructor, and neither from_file nor to_file
\* calls close(): the connection lasts as long as the object. When the call
\* raises, the traceback holds the frame and with it the object; when it
\* returns, the object is unreachable, and it depends on the interpreter
\* whether it has been destroyed by then (collected).
Unclosed(opened, res, collected) ==
    IF ~opened THEN 0
    ELSE IF res.kind = "ok" /\ collected THEN 0
    ELSE 1

\* a caller runs TeleSession.from_file(path); manager/sessions/tele.py
\* connects under "async with"
TeleSessionFromFile ==
    \E collected \in BOOLEAN :
        LET out == TeleFromFile(pkg, fs[SessionPath])
        IN /\ call' = [op |-> "tele_from_file", before |-> fs[SessionPath],
                       res |-> out.res,
                       conns |-> IF pkg = "legacy" THEN 0
                                 ELSE Unclosed(TRUE, out.res, collected)]
           /\ fs' = [fs EXCEPT ![SessionPath] = out.file]
           /\ UNCHANGED <<pkg, tok, mgr>>

NextTele == PlaceTeleFile \/ TeleSessionFromFile

SpecTele == InitTele /\ [][NextTele]_vars

----------------------------------------------------------------------------
(* Claims about TeleSession.from_file                                      *)

\* a file of exactly the TeleSession.TABLES schema
ExactTele(f) == f.kind = "db" /\ f.tables = TeleSchema

\* C7: TeleSession.from_file returns a record only if the file's table set
\* and every table's column set equal TeleSession.TABLES exactly, and
\* otherwise fails with ValidationError ("not a valid session file").
C7_StrictTeleSchema ==
    call.op = "tele_from_file" =>
        /\ call.res.kind = "ok" => ExactTele(call.before)
        /\ ~ExactTele(call.before) => call.res.kind = "ValidationError"

\* C8 as stated: TeleSession.from_file of sessions/tele.py returns the id
\* and phone of the account's own entity when the entities table holds it,
\* and leaves both unset, without failing, when it does not.
C8_EntitiesQueried ==
    (call.op = "tele_from_file" /\ pkg # "legacy" /\ call.res.kind = "ok") =>
        IF Len(call.before.entities) > 0
        THEN /\ call.res.val.user_id = call.before.entities[1]["id"]
             /\ call.res.val.phone_number = call.before.entities[1]["phone"]
        ELSE /\ call.res.val.user_id = None
             /\ call.res.val.phone_number = None

\* C8: TeleSession.from_file of sessions/tele.py never reads the entities
\* table: every record it returns has user_id and phone_number unset,
\* whether or not the account's own entity is in the file, and a file of a
\* logged-in session without that entity decodes.
C8_EntitiesNotRead ==
    (call.op = "tele_from_file" /\ pkg # "legacy") =>
        /\ call.res.kind = "ok" =>
              /\ call.res.val.user_id = None
              /\ call.res.val.phone_number = None
        /\ (/\ ExactTele(call.before)
            /\ call.before.version = <<TeleVersion>>
            /\ Len(call.before.sessions) > 0
            /\ HasKey(call.before.sessions[1])
            /\ call.before.entities = <<>>)
           => call.res.kind = "ok"

\* a file holding the account's own entity was decoded
C8_Witness ==
    /\ call.op = "tele_from_file"
    /\ pkg # "legacy"
    /\ call.res.kind = "ok"
    /\ Len(call.before.entities) > 0
    /\ call.before.entities[1]["id"] = TEST_USER_ID
    /\ call.res.val.user_id = None

\* a file without the account's own entity was decoded
C8_WitnessAbsent ==
    /\ call.op = "tele_from_file"
    /\ pkg # "legacy"
    /\ call.res.kind = "ok"
    /\ ExactTele(call.before)
    /\ call.before.entities = <<>>


----------------------------------------------------------------------------
(* TDataSession: the Desktop folder codec, and the manager's export to it. *)
(* A folder is absent, or a directory that holds a Desktop container (the  *)
(* account opentele saved there) or none.                                  *)

Dir(accounts) == [kind |-> "dir", accounts |-> accounts]

\* the place of folder p in FolderChain
Depth(p) == CHOOSE i \in 1..Len(FolderChain) : FolderChain[i] = p

\* path / "tdata"
Child(p) == FolderChain[Depth(p) + 1]

\* Path.mkdir(parents=True, exist_ok=True): p and its missing parents
mkdir(files, p) ==
    [q \in DOMAIN files |->
        IF q \in FolderPaths /\ Depth(q) <= Depth(p) /\ files[q].kind = "absent"
        THEN Dir(<<>>) ELSE files[q]]

\* TDesktop.SaveTData(p): the container of the account, written into p
SaveTData(files, p, account) == [mkdir(files, p) EXCEPT ![p] = Dir(<<account>>)]

\* TDesktop(basePath=p).mainAccount: the account of the container in p
TDesktop(files, p) ==
    IF files[p].kind = "dir" /\ Len(files[p].accounts) > 0
    THEN [kind |-> "ok", val |-> files[p].accounts[1]]
    ELSE [kind |-> "OpenTeleException"]

\* TDataSession(...)
TDataSession(dc_id, auth_key, user_id) ==
    [dc_id |-> dc_id, auth_key |-> auth_key, user_id |-> user_id]

\* TDataSession.from_tdata
from_tdata(files, tdata_folder) ==
    IF files[tdata_folder].kind = "absent" THEN [kind |-> "FileNotFoundError"]
    ELSE LET client == TDesktop(files, tdata_folder)
         IN IF client.kind # "ok" THEN client
            ELSE [kind |-> "ok",
                  val |-> TDataSession(client.val.MainDcId, client.val.authKey,
                                       client.val.UserId)]

\* a to_folder that saves the container into path itself
M_to_folder(self, path, files) ==
    IF self.user_id = None
    THEN [res |-> [kind |-> "ValueError"], files |-> mkdir(files, path)]
    ELSE [res |-> [kind |-> "ok"],
          files |-> SaveTData(mkdir(files, path), path,
                              [MainDcId |-> self.dc_id, UserId |-> self.user_id,
                               authKey |-> self.auth_key])]

\* TDataSession.to_folder: the outcome and the files it leaves
to_folder(self, path, files) ==
    LET made == mkdir(files, path)
    IN IF self.user_id = None
       THEN [res |-> [kind |-> "ValueError"], files |-> made]
       ELSE [res |-> [kind |-> "ok"],
             files |-> SaveTData(made, Child(path),
                                 [MainDcId |-> self.dc_id, UserId |-> self.user_id,
                                  authKey |-> self.auth_key])]

\* api.py: the API profiles (of APIData, the api_id is what the codecs read)
APIData(name, api_id) == [name |-> name, api_id |-> api_id]
TelegramDesktop == APIData("TelegramDesktop", 17349)
TelegramAndroid == APIData("TelegramAndroid", 4)
TelegramIOS == APIData("TelegramIOS", 8)

\* x or y
Or(x, y) == IF x = None \/ x = 0 THEN y ELSE x

\* SessionManager(...): valid is "None", "True" or "False"; user is the id of
\* the account get_me returned, client the connected client or "None"
SessionManager(dc_id, auth_key, user_id, api, test_mode, is_bot, api_id) ==
    [dc_id |-> dc_id, auth_key |-> auth_key, user_id |-> user_id,
     valid |-> "None", api |-> api, user |-> None, client |-> "None",
     phone_number |-> None, test_mode |-> test_mode, is_bot |-> is_bot,
     api_id |-> Or(api_id, api.api_id)]

\* a get_user that tries the connection a second time when it fails
M_get_user(self, network, id) ==
    IF network = "user"
    THEN [res |-> [kind |-> "ok", val |-> id], lookups |-> 1,
          self |-> [self EXCEPT !.user = id, !.user_id = id, !.client = "None"]]
    ELSE [res |-> [kind |-> "ok", val |-> None], lookups |-> 2,
          self |-> [self EXCEPT !.user = None, !.client = "None"]]

\* SessionManager.get_user under the outcome of the network: "user" (get_me
\* returns the account, whose id is id), "unauthorized" (get_me returns
\* None), "RPCError" (get_me raises, and __aexit__ disconnects) or
\* "ConnectionError" (connect raises, and __aexit__ never runs)
\* lookups counts the connections the call opened to the network
get_user(self, network, id) ==
    IF network = "ConnectionError"
    THEN [res |-> [kind |-> "ConnectionError"], lookups |-> 1,
          self |-> [self EXCEPT !.client = "TelegramClient"]]
    ELSE IF network = "RPCError"
    THEN [res |-> [kind |-> "RPCError"], lookups |-> 1,
          self |-> [self EXCEPT !.client = "None"]]
    ELSE IF network = "user"
    THEN [res |-> [kind |-> "ok", val |-> id], lookups |-> 1,
          self |-> [self EXCEPT !.user = id, !.user_id = id, !.client = "None"]]
    ELSE [res |-> [kind |-> "ok", val |-> None], lookups |-> 1,
          self |-> [self EXCEPT !.user = None, !.client = "None"]]

\* a get_user_id that looks the user up whether or not user_id is set
M_get_user_id(self, network, id) ==
    LET got == get_user(self, network, id)
    IN IF got.res.kind # "ok" THEN got
       ELSE IF got.res.val = None
       THEN [res |-> [kind |-> "ValidationError"], lookups |-> got.lookups,
             self |-> got.self]
       ELSE got

\* SessionManager.get_user_id
get_user_id(self, network, id) ==
    IF self.user_id # None /\ self.user_id # 0
    THEN [res |-> [kind |-> "ok", val |-> self.user_id], lookups |-> 0, self |-> self]
    ELSE LET got == get_user(self, network, id)
         IN IF got.res.kind # "ok" THEN got
            ELSE IF got.res.val = None
            THEN [res |-> [kind |-> "ValidationError"], lookups |-> got.lookups,
                  self |-> got.self]
            ELSE got

\* SessionManager.tdata
tdata(self) ==
    IF self.user_id = None THEN [kind |-> "ValueError"]
    ELSE [kind |-> "ok", val |-> TDataSession(self.dc_id, self.auth_key, self.user_id)]

\* a to_tdata_folder that encodes first and looks the user up afterwards
M_to_tdata_folder(self, path, files, network, id) ==
    LET out == to_folder(TDataSession(self.dc_id, self.auth_key, Or(self.user_id, id)),
                         path, files)
        got == get_user_id(self, network, id)
    IN [res |-> got.res, self |-> got.self, files |-> out.files,
        calls |-> <<"to_folder", "get_user_id">>]

\* SessionManager.to_tdata_folder; calls lists the calls it made, in order
to_tdata_folder(self, path, files, network, id) ==
    LET got == get_user_id(self, network, id)
    IN IF got.res.kind # "ok"
       THEN [res |-> got.res, self |-> got.self, files |-> files,
             calls |-> <<"get_user_id">>]
       ELSE LET session == tdata(got.self)
            IN IF session.kind # "ok"
               THEN [res |-> session, self |-> got.self, files |-> files,
                     calls |-> <<"get_user_id", "tdata">>]
               ELSE LET out == to_folder(session.val, path, files)
                    IN [res |-> out.res, self |-> got.self, files |-> out.files,
                        calls |-> <<"get_user_id", "tdata", "to_folder">>]

----------------------------------------------------------------------------
(* The Desktop folder codec as a state machine                             *)

BOT_USER_ID == 998877660

\* the folders an export is asked to write to
ExportPaths == {FolderChain[i] : i \in 1..(Len(FolderChain) - 1)}

\* the folder the manager is asked to export to
ManagerPaths == {FolderChain[1]}

TDataRecords ==
    {TDataSession(2, k, u) : k \in AuthKeys, u \in {None, TEST_USER_ID}}

\* the accounts of the containers Telegram Desktop left on the disk
DesktopAccounts ==
    {[MainDcId |-> 4, UserId |-> BOT_USER_ID, authKey |-> Key(1)]}

Managers ==
    {SessionManager(2, Key(1), u, TelegramDesktop, FALSE, FALSE, None) :
        u \in {None, 0, BOT_USER_ID}}

Networks == {"user", "unauthorized", "RPCError", "ConnectionError"}

InitTdata ==
    /\ pkg = "pyro"
    /\ tok = NoToken
    /\ call = NoCall
    /\ fs = NoFiles
    /\ mgr \in Managers

\* Telegram Desktop leaves its folder on the disk
PlaceFolder ==
    /\ call = NoCall
    /\ fs = NoFiles
    /\ \E p \in FolderPaths, a \in DesktopAccounts : fs' = SaveTData(fs, p, a)
    /\ UNCHANGED <<pkg, tok, call, mgr>>

\* the export a from_tdata call follows directly, if it does
Export ==
    IF call.op \in {"to_folder", "to_tdata_folder"}
    THEN [op |-> call.op, rec |-> call.rec, path |-> call.path, res |-> call.res]
    ELSE NoCall

\* a caller runs TDataSession(...).to_folder(path)
TDataToFolder ==
    \E self \in TDataRecords, path \in ExportPaths :
        LET out == to_folder(self, path, fs)
        IN /\ call' = [op |-> "to_folder", rec |-> self, path |-> path,
                       before |-> fs, res |-> out.res]
           /\ fs' = out.files
           /\ UNCHANGED <<pkg, tok, mgr>>

\* a caller runs TDataSession.from_tdata(path)
TDataFromTdata ==
    \E path \in FolderPaths :
        /\ call' = [op |-> "from_tdata", path |-> path, after |-> Export,
                    res |-> from_tdata(fs, path)]
        /\ UNCHANGED <<pkg, tok, fs, mgr>>

\* a caller runs SessionManager.to_tdata_folder(path) on the manager
ManagerToTdataFolder ==
    \E path \in ManagerPaths, network \in Networks :
        LET out == to_tdata_folder(mgr, path, fs, network, TEST_USER_ID)
        IN /\ call' = [op |-> "to_tdata_folder",
                       rec |-> TDataSession(out.self.dc_id, out.self.auth_key,
                                            out.self.user_id),
                       path |-> path, before |-> fs, res |-> out.res,
                       self |-> mgr, network |-> network, calls |-> out.calls]
           /\ fs' = out.files
           /\ mgr' = out.self
           /\ UNCHANGED <<pkg, tok>>

NextTdata == PlaceFolder \/ TDataToFolder \/ TDataFromTdata \/ ManagerToTdataFolder

SpecTdata == InitTdata /\ [][NextTdata]_vars

----------------------------------------------------------------------------
(* Claims about the Desktop folder codec                                   *)

\* C9: an export to the Desktop folder format of a record whose user_id is
\* unset (TDataSession.to_folder, and SessionManager.to_tdata_folder when the
\* lookup leaves user_id unset) fails, and when it has failed no folder has
\* been created or modified.
C9_FailsBeforeFileIO ==
    (call.op \in {"to_folder", "to_tdata_folder"} /\ call.rec.user_id = None) =>
        /\ call.res.kind # "ok"
        /\ fs = call.before

\* C10 as stated: for every record with user_id set, to_folder(P) succeeds
\* and a from_tdata(P) that follows it succeeds and returns the same
\* auth_key, dc_id and user_id.
C10_SamePathRoundTrip ==
    /\ (call.op = "to_folder" /\ call.rec.user_id # None) => call.res.kind = "ok"
    /\ (/\ call.op = "from_tdata"
        /\ call.after.op = "to_folder"
        /\ call.after.rec.user_id # None
        /\ call.path = call.after.path)
       => /\ call.res.kind = "ok"
          /\ call.res.val = call.after.rec

\* C10: for every record with user_id set, to_folder(P) succeeds and a
\* from_tdata(P / "tdata") that follows it succeeds and returns the same
\* auth_key, dc_id and user_id.
C10_RoundTrip ==
    /\ (call.op = "to_folder" /\ call.rec.user_id # None) => call.res.kind = "ok"
    /\ (/\ call.op = "from_tdata"
        /\ call.after.op = "to_folder"
        /\ call.after.rec.user_id # None
        /\ call.path = Child(call.after.path))
       => /\ call.res.kind = "ok"
          /\ call.res.val.auth_key = call.after.rec.auth_key
          /\ call.res.val.dc_id = call.after.rec.dc_id
          /\ call.res.val.user_id = call.after.rec.user_id

\* a folder written by to_folder(P) was read back from P / "tdata"
C10_Witness ==
    /\ call.op = "from_tdata"
    /\ call.after.op = "to_folder"
    /\ call.after.res.kind = "ok"
    /\ call.path = Child(call.after.path)
    /\ call.res.kind = "ok"
    /\ call.res.val.user_id = TEST_USER_ID


----------------------------------------------------------------------------
(* SessionManager: construction from a Desktop folder, and the lookup of   *)
(* the user                                                                *)

\* SessionManager.from_tdata_folder
from_tdata_folder(files, folder) ==
    LET session == from_tdata(files, folder)
    IN IF session.kind # "ok" THEN session
       ELSE [kind |-> "ok",
             val |-> SessionManager(session.val.dc_id, session.val.auth_key, None,
                                    TelegramDesktop, FALSE, FALSE, None)]

\* SessionManager.validate
sm_validate(self, network, id) ==
    LET got == get_user(self, network, id)
    IN IF got.res.kind # "ok" THEN got
       ELSE [res |-> [kind |-> "ok", val |-> got.res.val # None],
             lookups |-> got.lookups,
             self |-> [got.self EXCEPT
                          !.valid = IF got.res.val # None THEN "True" ELSE "False"]]

\* a caller runs SessionManager.from_tdata_folder(path) and keeps the manager
ManagerFromTdataFolder ==
    \E path \in FolderPaths :
        LET res == from_tdata_folder(fs, path)
        IN /\ call' = [op |-> "from_tdata_folder", path |-> path,
                       session |-> from_tdata(fs, path), res |-> res]
           /\ mgr' = IF res.kind = "ok" THEN res.val ELSE mgr
           /\ UNCHANGED <<pkg, tok, fs>>

\* a caller awaits get_user_id() on the manager
ManagerGetUserId ==
    \E network \in Networks :
        LET out == get_user_id(mgr, network, TEST_USER_ID)
        IN /\ call' = [op |-> "get_user_id", self |-> mgr, network |-> network,
                       res |-> out.res, lookups |-> out.lookups]
           /\ mgr' = out.self
           /\ UNCHANGED <<pkg, tok, fs>>

\* a caller awaits get_user() on the manager
ManagerGetUser ==
    \E network \in Networks :
        LET out == get_user(mgr, network, TEST_USER_ID)
        IN /\ call' = [op |-> "get_user", self |-> mgr, network |-> network,
                       res |-> out.res, lookups |-> out.lookups]
           /\ mgr' = out.self
           /\ UNCHANGED <<pkg, tok, fs>>

\* a caller awaits validate() on the manager
ManagerValidate ==
    \E network \in Networks :
        LET out == sm_validate(mgr, network, TEST_USER_ID)
        IN /\ call' = [op |-> "validate", self |-> mgr, network |-> network,
                       res |-> out.res, lookups |-> out.lookups]
           /\ mgr' = out.self
           /\ UNCHANGED <<pkg, tok, fs>>

NextLookup ==
    \/ PlaceFolder
    \/ ManagerFromTdataFolder
    \/ ManagerGetUserId
    \/ ManagerGetUser
    \/ ManagerValidate
    \/ ManagerToTdataFolder

SpecLookup == InitTdata /\ [][NextLookup]_vars

----------------------------------------------------------------------------
(* Claims about the manager's user_id                                      *)

\* a user_id that names a user: neither None nor the 0 written for none
IsSet(user_id) == user_id # None /\ user_id # 0

\* C11: SessionManager.from_tdata_folder returns a manager whose user_id is
\* the user id of the folder's primary account, the one TDataSession.from_tdata
\* extracted, together with its auth_key and dc_id.
C11_UserIdFromFolder ==
    (call.op = "from_tdata_folder" /\ call.session.kind = "ok") =>
        /\ call.res.kind = "ok"
        /\ call.res.val.user_id = call.session.val.user_id
        /\ call.res.val.auth_key = call.session.val.auth_key
        /\ call.res.val.dc_id = call.session.val.dc_id

C13_NoRetry ==
    call.op = "get_user_id" =>
        /\ call.lookups <= 1
        /\ (~IsSet(call.self.user_id) /\ call.network = "unauthorized")
              => call.res.kind = "ValidationError"
        /\ call.res.kind # "ok" =>
              /\ ~IsSet(mgr.user_id)
              /\ mgr.user_id = call.self.user_id
        /\ (~IsSet(call.self.user_id) /\ call.network = "user") => call.res.kind = "ok"

\* a get_user_id() call failed for want of an identity
C13_Witness ==
    /\ call.op = "get_user_id"
    /\ call.network = "unauthorized"
    /\ call.res.kind = "ValidationError"
    /\ call.lookups = 1

\* a get_user_id() call succeeded after a connection had failed
C13_WitnessRetry ==
    /\ call.op = "get_user_id"
    /\ call.self.client = "TelegramClient"
    /\ ~IsSet(call.self.user_id)
    /\ call.res.kind = "ok"

\* C14: once a manager's user_id is set, no get_user_id(), get_user(),
\* validate() or export call changes it, whatever the lookup returns.
C14_NeverOverwritten ==
    (/\ call.op \in {"get_user_id", "get_user", "validate", "to_tdata_folder"}
     /\ IsSet(call.self.user_id))
    => mgr.user_id = call.self.user_id

\* C15: SessionManager.to_tdata_folder calls get_user_id() first and
\* TDataSession.to_folder only after get_user_id() has returned; when
\* get_user_id() raises, the error is the outcome of the export, to_folder
\* is not called and the files are as they were.
C15_LookupBeforeEncode ==
    call.op = "to_tdata_folder" =>
        LET got == get_user_id(call.self, call.network, TEST_USER_ID)
        IN /\ call.calls[1] = "get_user_id"
           /\ \A i \in 1..Len(call.calls) :
                 call.calls[i] = "to_folder" => (i > 1 /\ got.res.kind = "ok")
           /\ got.res.kind # "ok" =>
                 /\ call.res = got.res
                 /\ fs = call.before

\* an export failed in get_user_id()
C15_Witness ==
    /\ call.op = "to_tdata_folder"
    /\ call.res.kind = "ValidationError"
    /\ call.calls = <<"get_user_id">>

\* an export looked the user up and then encoded
C15_WitnessEncoded ==
    /\ call.op = "to_tdata_folder"
    /\ call.res.kind = "ok"
    /\ call.self.user_id = None
    /\ call.calls = <<"get_user_id", "tdata", "to_folder">>

----------------------------------------------------------------------------
(* TeleSession: the string codec of sessions/tele.py                       *)

\* an IPv6 address in compressed notation, and the same address written out
IPV6_ADDRESS == "2001:67c:4e8:f002::a"
IPV6_EXPLODED == "2001:067c:04e8:f002:0000:0000:0000:000a"

\* the bytes of the addresses of the model, by their compressed notation
Octets(a) == CASE a = "149.154.175.10" -> <<149, 154, 175, 10>>
               [] a = "149.154.167.40" -> <<149, 154, 167, 40>>
               [] a = "149.154.175.117" -> <<149, 154, 175, 117>>
               [] a = "149.154.175.53" -> <<149, 154, 175, 53>>
               [] a = "149.154.167.51" -> <<149, 154, 167, 51>>
               [] a = "149.154.175.100" -> <<149, 154, 175, 100>>
               [] a = "149.154.167.91" -> <<149, 154, 167, 91>>
               [] a = "91.108.56.130" -> <<91, 108, 56, 130>>
               [] a = "91.105.192.100" -> <<91, 105, 192, 100>>
               [] a = IPV6_ADDRESS ->
                      <<32, 1, 6, 124, 4, 232, 240, 2, 0, 0, 0, 0, 0, 0, 0, 10>>

Addresses ==
    {"149.154.175.10", "149.154.167.40", "149.154.175.117", "149.154.175.53",
     "149.154.167.51", "149.154.175.100", "149.154.167.91", "91.108.56.130",
     "91.105.192.100", IPV6_ADDRESS}

\* the compressed notation of the address that text a denotes
Compressed(a) == IF a = IPV6_EXPLODED THEN IPV6_ADDRESS ELSE a

\* ipaddress.ip_address(a).packed: ValueError for what is no address
ip_packed(a) ==
    IF Compressed(a) \in Addresses THEN [kind |-> "ok", val |-> Octets(Compressed(a))]
    ELSE [kind |-> "ValueError"]

\* ipaddress.ip_address(b).compressed
ip_compressed(b) ==
    IF \E a \in Addresses : Octets(a) = b
    THEN CHOOSE a \in Addresses : Octets(a) = b
    ELSE "0.0.0.0"

\* pyrogram's DataCenter(dc_id, test_mode, ipv6, media), which yields the pair
\* (address, port); sessions/tele.py calls it with ipv6 and media False, and
\* the tables are those kuri.py copies
DataCenter(dc_id, test_mode, ipv6, media) ==
    LET ip == IF test_mode THEN TEST(dc_id) ELSE PROD(dc_id)
    IN IF ip = NoAddress THEN [kind |-> "KeyError"]
       ELSE [kind |-> "ok", val |-> <<ip, IF test_mode THEN 80 ELSE 443>>]

\* TeleSession._STRUCT_PREFORMAT.format(ip_len)
STRUCT_PREFORMAT(ip_len) == <<"B", IF ip_len = 4 THEN "4s" ELSE "16s", "H", "256s">>
CURRENT_VERSION == "1"

\* TeleSession.encode: base64 with the padding kept
tele_encode(x) == b64encode(x)
\* TeleSession.decode: the padding must be there
tele_decode(x) == b64decode(x)

\* a Telethon session string: one version character, then base64
TeleString(version, body) == [version |-> version, chars |-> body.chars, pad |-> body.pad]
\* string[1:]
Body(string) == [chars |-> string.chars, pad |-> string.pad]

\* a from_string that takes every address to be of four bytes
M_tele_from_string(string) ==
    LET decoded == tele_decode(Body(string))
        u == unpack(STRUCT_PREFORMAT(4), decoded.val)
    IN IF decoded.kind # "ok" THEN decoded
       ELSE IF u.kind # "ok" THEN u
       ELSE [kind |-> "ok",
             val |-> TeleSession(u.val[1], u.val[4], ip_compressed(u.val[2]),
                                 u.val[3], None, None, None)]

\* TeleSession.from_string
tele_from_string(string) ==
    LET rest == Body(string)
        ip_len == IF StrLen(rest) = 352 THEN 4 ELSE 16
        decoded == tele_decode(rest)
        u == unpack(STRUCT_PREFORMAT(ip_len), decoded.val)
    IN IF decoded.kind # "ok" THEN decoded
       ELSE IF u.kind # "ok" THEN u
       ELSE [kind |-> "ok",
             val |-> TeleSession(u.val[1], u.val[4], ip_compressed(u.val[2]),
                                 u.val[3], None, None, None)]

\* a to_string that takes the default endpoint whether or not the session
\* has one
M_tele_to_string(self) ==
    LET dc == DataCenter(self.dc_id, FALSE, FALSE, FALSE)
        me == [self EXCEPT !.server_address = dc.val[1], !.port = dc.val[2]]
        packed == pack(STRUCT_PREFORMAT(4),
                       <<me.dc_id, ip_packed(me.server_address).val, me.port,
                         me.auth_key>>)
    IN IF packed.kind # "ok" THEN [res |-> packed, self |-> me]
       ELSE [res |-> [kind |-> "ok",
                      val |-> TeleString(CURRENT_VERSION, tele_encode(packed.val))],
             self |-> me]

\* TeleSession.to_string: the outcome, and self as the call leaves it (a
\* session without server_address gets the default endpoint written into
\* it)
tele_to_string(self) ==
    LET dc == DataCenter(self.dc_id, FALSE, FALSE, FALSE)
        me == IF self.server_address = NoAddress /\ dc.kind = "ok"
              THEN [self EXCEPT !.server_address = dc.val[1], !.port = dc.val[2]]
              ELSE self
        ip == ip_packed(me.server_address)
        packed == pack(STRUCT_PREFORMAT(Len(ip.val)),
                       <<me.dc_id, ip.val, me.port, me.auth_key>>)
    IN IF self.server_address = NoAddress /\ dc.kind # "ok"
       THEN [res |-> dc, self |-> self]
       ELSE IF ip.kind # "ok" THEN [res |-> ip, self |-> me]
       ELSE IF packed.kind # "ok" THEN [res |-> packed, self |-> me]
       ELSE [res |-> [kind |-> "ok",
                      val |-> TeleString(CURRENT_VERSION, tele_encode(packed.val))],
             self |-> me]

----------------------------------------------------------------------------
(* SessionManager: the conversions between strings and files               *)

\* SessionManager.from_pyrogram_string
from_pyrogram_string(p, string, api) ==
    LET session == from_string(p, string)
    IN IF session.kind # "ok" THEN session
       ELSE [kind |-> "ok",
             val |-> SessionManager(session.val.dc_id, session.val.auth_key,
                                    session.val.user_id, api, session.val.test_mode,
                                    session.val.is_bot, session.val.api_id)]

\* SessionManager.from_pyrogram_file
from_pyrogram_file(p, file, api) ==
    LET session == from_file(p, file)
    IN IF session.kind # "ok" THEN session
       ELSE [kind |-> "ok",
             val |-> SessionManager(session.val.dc_id, session.val.auth_key,
                                    session.val.user_id, api, session.val.test_mode,
                                    session.val.is_bot, session.val.api_id)]

\* SessionManager.from_telethon_string
from_telethon_string(string, api) ==
    LET session == tele_from_string(string)
    IN IF session.kind # "ok" THEN session
       ELSE [kind |-> "ok",
             val |-> SessionManager(session.val.dc_id, session.val.auth_key,
                                    None, api, FALSE, FALSE, None)]

\* SessionManager.pyrogram
pyrogram(p, self) ==
    Construct(p, PyroSession(self.dc_id, self.api_id, self.auth_key, self.user_id,
                             self.is_bot, self.test_mode))

\* SessionManager.telethon
telethon(self) ==
    TeleSession(self.dc_id, self.auth_key, NoAddress, None, None, None, None)

\* SessionManager.to_pyrogram_string
to_pyrogram_string(p, self) == to_string(p, pyrogram(p, self))

\* SessionManager.to_telethon_string
to_telethon_string(self) == tele_to_string(telethon(self)).res

\* a to_pyrogram_file that stores the session as a user's
M_to_pyrogram_file(p, self, f) ==
    to_file(p, [pyrogram(p, self) EXCEPT !.is_bot = FALSE], f)

\* SessionManager.to_pyrogram_file: the outcome and the file it leaves
to_pyrogram_file(p, self, f) == to_file(p, pyrogram(p, self), f)

----------------------------------------------------------------------------
(* The conversions as a state machine: a session string arrives, a manager *)
(* is built from it, and the manager exports strings and files, from which *)
(* managers are built again.                                               *)

\* the sessions whose Pyrogram strings arrive: users and bots, with the
\* api_id of some application or none, and one of the test cluster
ConvertRecords ==
    {PyroSession(2, api, Key(1), uid, bot, FALSE) :
        api \in {None, 12345}, uid \in {None, TEST_USER_ID}, bot \in BOOLEAN}
    \cup {PyroSession(2, 12345, Key(1), TEST_USER_ID, FALSE, TRUE)}

\* the sessions whose Telethon strings arrive: at the default endpoint of
\* their data center, and at another one
TeleStringRecords ==
    {TeleSession(dc, Key(1), PROD(dc), 443, None, None, None) : dc \in DcIds}
    \cup {TeleSession(2, Key(1), TEST_SERVER_ADDRESS, TEST_PORT, None, None, None)}

\* the api argument of the constructors
Profiles == {TelegramAndroid, TelegramIOS}

NoManager == SessionManager(None, <<>>, None, TelegramDesktop, FALSE, FALSE, None)

\* call.chain counts how far the objects at hand are along the chain
\* from_pyrogram_string (1), to_pyrogram_file (2), from_pyrogram_file (3)
Chain == IF "chain" \in DOMAIN call THEN call.chain ELSE 0

InitConvert ==
    /\ pkg \in {"pyro", "kuri"}
    /\ tok = NoToken
    /\ call = NoCall
    /\ fs = NoFiles
    /\ mgr = NoManager

\* a Pyrogram session string arrives, as PyroSession.to_string wrote it
PyrogramStringArrives ==
    \E r \in ConvertRecords :
        /\ tok = NoToken
        /\ tok' = [s |-> to_string(pkg, Construct(pkg, r)).val, layout |-> "current",
                   rec |-> r]
        /\ UNCHANGED <<pkg, call, fs, mgr>>

\* a Pyrogram session string of an old layout arrives, as older clients
\* wrote it (without the "=" padding)
OldPyrogramStringArrives ==
    \E r \in ConvertRecords \cap OldRecords, wide \in BOOLEAN :
        LET fmt == IF wide THEN OLD_STRING_FORMAT_64 ELSE OLD_STRING_FORMAT
        IN /\ tok = NoToken
           /\ tok' = [s |-> rstrip(b64encode(pack(fmt, <<r.dc_id, r.test_mode,
                                  r.auth_key, r.user_id, r.is_bot>>).val)),
                      layout |-> IF wide THEN "old64" ELSE "old32", rec |-> r]
           /\ UNCHANGED <<pkg, call, fs, mgr>>

\* a Telethon session string arrives, as TeleSession.to_string wrote it
TelethonStringArrives ==
    \E r \in TeleStringRecords :
        /\ tok = NoToken
        /\ tok' = [s |-> tele_to_string(r).res.val, layout |-> "telethon", rec |-> r]
        /\ UNCHANGED <<pkg, call, fs, mgr>>

\* SessionManager.from_pyrogram_string(string, api)
ManagerFromPyrogramString ==
    \E api \in Profiles :
        LET res == from_pyrogram_string(pkg, tok.s, api)
        IN /\ tok.layout \in {"current", "old32", "old64"}
           /\ call' = [op |-> "from_pyrogram_string", api |-> api, res |-> res,
                       chain |-> IF res.kind = "ok" THEN 1 ELSE Chain]
           /\ mgr' = IF res.kind = "ok" THEN res.val ELSE mgr
           /\ UNCHANGED <<pkg, tok, fs>>

\* SessionManager.from_telethon_string(string, api)
ManagerFromTelethonString ==
    \E api \in Profiles :
        LET res == from_telethon_string(tok.s, api)
        IN /\ tok.layout = "telethon"
           /\ call' = [op |-> "from_telethon_string", api |-> api, res |-> res,
                       chain |-> IF res.kind = "ok" THEN 0 ELSE Chain]
           /\ mgr' = IF res.kind = "ok" THEN res.val ELSE mgr
           /\ UNCHANGED <<pkg, tok, fs>>

\* manager.to_pyrogram_string()
ManagerToPyrogramString ==
    /\ mgr # NoManager
    /\ call' = [op |-> "to_pyrogram_string", self |-> mgr,
                res |-> to_pyrogram_string(pkg, mgr), chain |-> Chain]
    /\ UNCHANGED <<pkg, tok, fs, mgr>>

\* manager.to_telethon_string()
ManagerToTelethonString ==
    /\ mgr # NoManager
    /\ call' = [op |-> "to_telethon_string", self |-> mgr,
                res |-> to_telethon_string(mgr), chain |-> Chain]
    /\ UNCHANGED <<pkg, tok, fs, mgr>>

\* await manager.to_pyrogram_file(path)
ManagerToPyrogramFile ==
    LET out == to_pyrogram_file(pkg, mgr, fs[SessionPath])
    IN /\ mgr # NoManager
       /\ call' = [op |-> "to_pyrogram_file", self |-> mgr, before |-> fs[SessionPath],
                   res |-> out.res,
                   chain |-> IF out.res.kind # "ok" THEN Chain
                             ELSE IF Chain = 1 THEN 2 ELSE 0]
       /\ fs' = [fs EXCEPT ![SessionPath] = out.file]
       /\ UNCHANGED <<pkg, tok, mgr>>

\* await SessionManager.from_pyrogram_file(path, api)
ManagerFromPyrogramFile ==
    \E api \in Profiles :
        LET res == from_pyrogram_file(pkg, fs[SessionPath], api)
        IN /\ tok # NoToken
           /\ call' = [op |-> "from_pyrogram_file", api |-> api,
                       before |-> fs[SessionPath], res |-> res,
                       chain |-> IF res.kind # "ok" THEN Chain
                                 ELSE IF Chain \in {2, 3} THEN 3 ELSE 0]
           /\ mgr' = IF res.kind = "ok" THEN res.val ELSE mgr
           /\ fs' = [fs EXCEPT ![SessionPath] = AfterConnect(@)]
           /\ UNCHANGED <<pkg, tok>>

NextConvert ==
    \/ PyrogramStringArrives
    \/ OldPyrogramStringArrives
    \/ TelethonStringArrives
    \/ ManagerFromPyrogramString
    \/ ManagerFromTelethonString
    \/ ManagerToPyrogramString
    \/ ManagerToTelethonString
    \/ ManagerToPyrogramFile
    \/ ManagerFromPyrogramFile

SpecConvert == InitConvert /\ [][NextConvert]_vars

----------------------------------------------------------------------------
(* Claims about the conversions                                            *)

\* C17: a session without server_address and port that is encoded to a
\* Telethon string (SessionManager.telethon, TeleSession.to_string) embeds
\* the default endpoint of its dc_id for its network: the production address
\* and port when test_mode is false, those of the test cluster when it is
\* true.
C17_DefaultEndpoint ==
    (call.op = "to_telethon_string" /\ call.res.kind = "ok") =>
        LET session == tele_from_string(call.res.val).val
            dc == DataCenter(call.self.dc_id, call.self.test_mode, FALSE, FALSE).val
        IN /\ session.server_address = dc[1]
           /\ session.port = dc[2]

\* C18: for every valid Telethon string s, also one whose endpoint is not
\* the default of its dc_id, from_telethon_string(s).to_telethon_string()
\* returns a string equal to s.
C18_TelethonStringRoundTrip ==
    (/\ call.op = "to_telethon_string"
     /\ tok.layout = "telethon"
     /\ call.self \in {from_telethon_string(tok.s, api).val : api \in Profiles})
        => call.res = [kind |-> "ok", val |-> tok.s]

\* C19: the api_id in the string to_pyrogram_string exports is the api_id
\* of the API profile the manager was constructed with (the api argument of
\* from_pyrogram_string or from_telethon_string), whatever api_id the source
\* session carried.
C19_ProfileApiId ==
    (call.op = "to_pyrogram_string" /\ Chain \in {0, 1}) =>
        /\ call.res.kind = "ok"
        /\ from_string(pkg, call.res.val).val.api_id = call.self.api.api_id

\* C20: for every Pyrogram string t, the chain from_pyrogram_string(t),
\* to_pyrogram_file(f), from_pyrogram_file(f), to_pyrogram_string() yields a
\* string that decodes to the same dc_id, auth_key, user_id and is_bot as t:
\* each step succeeds (f being a path where no file is), and the four
\* fields agree.
C20_StringFileString ==
    /\ call.op = "from_pyrogram_string" => call.res.kind = "ok"
    /\ (call.op = "to_pyrogram_file" /\ call.before.kind = "absent")
          => call.res.kind = "ok"
    /\ (call.op = "from_pyrogram_file" /\ Chain = 2) => call.res.kind = "ok"
    /\ (call.op = "to_pyrogram_string" /\ Chain = 3) =>
          /\ call.res.kind = "ok"
          /\ LET out == from_string(pkg, call.res.val).val
                 src == from_string(pkg, tok.s).val
             IN /\ out.dc_id = src.dc_id
                /\ out.auth_key = src.auth_key
                /\ out.user_id = src.user_id
                /\ out.is_bot = src.is_bot

\* the chain ran for a bot's string, through a file written on the way
C20_Witness ==
    /\ call.op = "to_pyrogram_string"
    /\ Chain = 3
    /\ call.res.kind = "ok"
    /\ tok.rec.is_bot
    /\ tok.rec.user_id = TEST_USER_ID
    /\ fs[SessionPath].kind = "db"
    /\ Len(fs[SessionPath].sessions) = 1

----------------------------------------------------------------------------
(* TeleSession: writing the file, sessions/tele.py                         *)

\* the row SQLiteSession._update_session_table writes for the session
SessionsRow(dc_id, server_address, port, auth_key, takeout_id) ==
    [dc_id |-> Or(dc_id, 0), server_address |-> server_address, port |-> port,
     auth_key |-> IF auth_key = <<>> THEN <<>> ELSE KeyOf(auth_key),
     takeout_id |-> takeout_id]

\* TeleSession.to_file: the outcome, the file and self as the call leaves
\* them, and whether a connection was opened. A session without endpoint
\* asks DataCenter, whose result is a pair and has no attribute ip_address.
\* The rows set_dc and the auth_key setter write are committed by save()
\* only; the setter takes the key from an AuthKey object (value.key).
tele_to_file(self, f) ==
    IF self.server_address = NoAddress \/ self.port = None
    THEN [res |-> [kind |-> IF DataCenter(self.dc_id, FALSE, FALSE, FALSE).kind = "ok"
                            THEN "AttributeError" ELSE "KeyError"],
          file |-> f, self |-> self, opened |-> FALSE]
    ELSE LET loaded == SQLiteSession(f)
         IN IF loaded.res.kind # "ok"
            THEN [res |-> loaded.res, file |-> loaded.file, self |-> self,
                  opened |-> TRUE]
            ELSE IF Cardinality(loaded.file.tables["sessions"]) # 5
            THEN [res |-> [kind |-> "sqlite3.OperationalError"], file |-> loaded.file,
                  self |-> self, opened |-> TRUE]
            ELSE IF self.auth_key # <<>> /\ ~IsObject(self.auth_key)
            THEN [res |-> [kind |-> "AttributeError"], file |-> loaded.file,
                  self |-> self, opened |-> TRUE]
            ELSE [res |-> [kind |-> "ok"],
                  file |-> [loaded.file EXCEPT !.sessions =
                               <<SessionsRow(self.dc_id, self.server_address,
                                    self.port, self.auth_key,
                                    IF self.takeout_id # None THEN self.takeout_id
                                    ELSE loaded.res.val.takeout_id)>>],
                  self |-> self, opened |-> TRUE]

----------------------------------------------------------------------------
(* The TeleSession codec of sessions/tele.py as a state machine: a session *)
(* object is constructed, then encoded to a string or to the file, and     *)
(* strings and the file are decoded.                                       *)

\* the sessions constructed: with the key as bytes (as the tests and
\* SessionManager.telethon build them) or as the AuthKey that from_file
\* returns; without endpoint, or at an IPv4 or an IPv6 address (the latter
\* in either notation); with a takeout_id or without
TeleRecords ==
    {TeleSession(2, key, e[1], e[2], t, None, None) :
        key \in {Key(1), AuthKeyObj(Key(1))},
        e \in {<<NoAddress, None>>, <<TEST_SERVER_ADDRESS, TEST_PORT>>,
                <<IPV6_ADDRESS, TEST_PORT>>, <<IPV6_EXPLODED, TEST_PORT>>},
        t \in {None, TEST_TAKEOUT_ID}}

InitTeleCodec ==
    /\ pkg = "pyro"
    /\ tok = NoToken
    /\ call = NoCall
    /\ fs = NoFiles
    /\ mgr = <<>>

\* a caller constructs TeleSession(...)
NewTeleSession ==
    \E r \in TeleRecords :
        /\ tok = NoToken
        /\ tok' = [s |-> NoToken.s, layout |-> "object", rec |-> r]
        /\ UNCHANGED <<pkg, call, fs, mgr>>

\* session.to_string()
TeleSessionToString ==
    LET out == tele_to_string(tok.rec)
    IN /\ tok.layout \in {"object", "telethon"}
       /\ call' = [op |-> "tele_to_string", self |-> tok.rec, after |-> out.self,
                   res |-> out.res]
       /\ tok' = IF out.res.kind = "ok"
                 THEN [s |-> out.res.val, layout |-> "telethon", rec |-> out.self]
                 ELSE [tok EXCEPT !.rec = out.self]
       /\ UNCHANGED <<pkg, fs, mgr>>

\* TeleSession.from_string(string) of the string written last
TeleSessionFromString ==
    /\ tok.layout = "telethon"
    /\ call' = [op |-> "tele_from_string", self |-> tok.rec,
                res |-> tele_from_string(tok.s)]
    /\ UNCHANGED <<pkg, tok, fs, mgr>>

\* await session.to_file(path)
TeleSessionToFile ==
    \E collected \in BOOLEAN :
        LET out == tele_to_file(tok.rec, fs[SessionPath])
        IN /\ tok.layout \in {"object", "telethon"}
           /\ call' = [op |-> "tele_to_file", self |-> tok.rec, after |-> out.self,
                       before |-> fs[SessionPath], res |-> out.res,
                       conns |-> Unclosed(out.opened, out.res, collected)]
           /\ tok' = [tok EXCEPT !.rec = out.self]
           /\ fs' = [fs EXCEPT ![SessionPath] = out.file]
           /\ UNCHANGED <<pkg, mgr>>

NextTeleCodec ==
    \/ NewTeleSession
    \/ TeleSessionToString
    \/ TeleSessionFromString
    \/ TeleSessionToFile
    \/ TeleSessionFromFile

SpecTeleCodec == InitTeleCodec /\ [][NextTeleCodec]_vars

----------------------------------------------------------------------------
(* Claims about the TeleSession codec                                      *)

\* C21: after any file-codec operation returns or raises (PyroSession's
\* validate, from_file and to_file, TeleSession's from_file and to_file),
\* every database connection the operation opened has been released: no
\* connection stays open, also when the operation fails.
C21_ConnectionsReleased ==
    call.op \in {"validate", "from_file", "to_file", "tele_from_file", "tele_to_file"}
        => call.conns = 0

C24_ToFileDefaultEndpoint ==
    /\ (/\ call.op = "tele_to_file"
        /\ call.before = Absent
        /\ (call.self.server_address = NoAddress \/ call.self.port = None))
          => call.res.kind = "ok"
    /\ call.op = "tele_from_file" =>
          \A r \in {x \in TeleRecords : x.server_address = NoAddress} :
              (/\ tele_to_file(r, Absent).res.kind = "ok"
               /\ call.before = tele_to_file(r, Absent).file) =>
                  /\ call.res.kind = "ok"
                  /\ call.res.val.dc_id = r.dc_id
                  /\ call.res.val.auth_key = r.auth_key
                  /\ call.res.val.server_address = PROD(r.dc_id)
                  /\ call.res.val.port = 443

\* C25 as stated: for every record with an IPv4 or an IPv6 server_address
\* and a port, from_string(to_string(r)) returns the same dc_id, auth_key,
\* server_address and port, with takeout_id unset.
C25_SameAddressText ==
    (call.op = "tele_from_string" /\ tok.s = tele_to_string(call.self).res.val) =>
        /\ call.res.kind = "ok"
        /\ call.res.val.dc_id = call.self.dc_id
        /\ call.res.val.auth_key = call.self.auth_key
        /\ call.res.val.server_address = call.self.server_address
        /\ call.res.val.port = call.self.port
        /\ call.res.val.takeout_id = None

\* C25: for every record with an IPv4 or an IPv6 server_address and a port,
\* from_string(to_string(r)) returns the same dc_id, auth_key and port and
\* the same address, in compressed notation, with takeout_id unset: strings
\* of both address families decode.
C25_StringRoundTrip ==
    (call.op = "tele_from_string" /\ tok.s = tele_to_string(call.self).res.val) =>
        /\ call.res.kind = "ok"
        /\ call.res.val.dc_id = call.self.dc_id
        /\ call.res.val.auth_key = call.self.auth_key
        /\ call.res.val.server_address = Compressed(call.self.server_address)
        /\ ip_packed(call.res.val.server_address) = ip_packed(call.self.server_address)
        /\ call.res.val.port = call.self.port
        /\ call.res.val.takeout_id = None

\* the string of a session at an IPv6 address, written out in full, was
\* decoded
C25_Witness ==
    /\ call.op = "tele_from_string"
    /\ call.res.kind = "ok"
    /\ call.self.server_address = IPV6_EXPLODED
    /\ call.self.takeout_id = TEST_TAKEOUT_ID
    /\ Len(ip_packed(call.res.val.server_address).val) = 16

----------------------------------------------------------------------------
(* Claims about the relational file codec and the files it leaves          *)

\* C26: a failed decode leaves the filesystem unchanged: PyroSession.from_file
\* and PyroSession.validate on a path where no file is raise ValidationError,
\* respectively return False, and do not create a file there.
C26_NoFileCreated ==
    (call.op \in {"validate", "from_file"} /\ call.before = Absent) =>
        /\ call.op = "from_file" => call.res.kind = "ValidationError"
        /\ call.op = "validate" => call.res = [kind |-> "ok", val |-> FALSE]
        /\ fs[SessionPath] = Absent

\* a file holds a session database when it is a database with a sessions
\* table, as the files are that to_file of either implementation writes
HoldsSessionDb(f) == f.kind = "db" /\ "sessions" \in TableNames(f)

\* C29: PyroSession.to_file on a path that already holds a session database
\* fails and leaves the file, its tables and their rows, as it was; and no
\* to_file leaves the sessions table or the version table of the file it
\* wrote to with more than one row.
C29_ExistingDbKept ==
    call.op = "to_file" =>
        /\ HoldsSessionDb(call.before) =>
              /\ call.res.kind # "ok"
              /\ fs[SessionPath] = call.before
        /\ fs[SessionPath] # call.before =>
              /\ Len(fs[SessionPath].sessions) <= 1
              /\ Len(fs[SessionPath].version) <= 1

\* to_file was run on the file an earlier to_file had written for another
\* record, and failed
C29_Witness ==
    /\ call.op = "to_file"
    /\ call.res.kind = "sqlite3.OperationalError"
    /\ call.before = to_file(pkg, Construct(pkg, SampleRecord), Absent).file
    /\ call.rec # SampleRecord
    /\ Len(fs[SessionPath].sessions) = 1

\* C30: PyroSession.from_file on a file that passes validate() and has no
\* row in sessions fails with ValidationError, never with an exception of
\* another type.
C30_NoRowValidationError ==
    (/\ call.op = "from_file"
     /\ validate(pkg, call.before)
     /\ Len(call.before.sessions) = 0) =>
        call.res.kind = "ValidationError"

----------------------------------------------------------------------------
(* SessionManager: the client of a lookup, await by await. get_user runs   *)
(* "async with self as client": __aenter__ stores a new client in          *)
(* self.client and awaits its connect(), the body awaits get_me(), and     *)
(* __aexit__ awaits the disconnect() of self.client and stores None. The   *)
(* event loop runs a call from one await to the next without interruption, *)
(* and at an await another call on the same manager may run. call holds    *)
(* the calls made (tasks) and the clients they created (clients).          *)

\* the calls that may be in progress at a time
Tasks == {1, 2}

LookupOps == {"get_user", "validate", "get_user_id"}

\* the client that call t creates in __aenter__
ClientOf(t) == IF t = 1 THEN "TelegramClient1" ELSE "TelegramClient2"
Owner(client) == CHOOSE t \in Tasks : ClientOf(t) = client

\* a call: the operation, its position, the client __aenter__ returned to
\* the body, the client whose disconnect() __aexit__ awaits, and the outcome
Task(op, pc, client, disc, res) ==
    [op |-> op, pc |-> pc, client |-> client, disc |-> disc, res |-> res]
Raised(kind) == [kind |-> kind, val |-> None]
Returned(val) == [kind |-> "ok", val |-> val]
IdleTask == Task("none", "idle", "None", "None", [kind |-> "none", val |-> None])

\* the calls in progress
Running == {t \in Tasks : call.tasks[t].pc \notin {"idle", "done"}}

InitClient ==
    /\ pkg = "pyro"
    /\ tok = NoToken
    /\ fs = NoFiles
    /\ mgr \in Managers
    /\ call = [op |-> "lookups", tasks |-> [t \in Tasks |-> IdleTask],
               clients |-> [t \in Tasks |-> "none"], overlap |-> FALSE]

\* __aexit__ up to its await, entered with the outcome of the body: the
\* disconnect of whatever self.client holds by now is awaited; None has no
\* disconnect
aexit(self, task, body) ==
    IF self.client = "None"
    THEN [task EXCEPT !.pc = "done", !.res = Raised("AttributeError")]
    ELSE [task EXCEPT !.pc = "disconnect", !.disc = self.client, !.res = body]

\* what the caller gets once __aexit__ is through, and the manager then:
\* an exception of the body goes on to the caller; else get_user returns
\* self.user, validate stores bool(user), get_user_id raises
\* ValidationError without a user
Outcome(op, self, body) ==
    IF body.kind # "ok" THEN [res |-> body, self |-> self]
    ELSE IF op = "validate"
    THEN LET valid == IF self.user # None THEN "True" ELSE "False"
         IN [res |-> Returned(valid), self |-> [self EXCEPT !.valid = valid]]
    ELSE IF op = "get_user_id" /\ self.user = None
    THEN [res |-> Raised("ValidationError"), self |-> self]
    ELSE [res |-> Returned(self.user), self |-> self]

\* a caller awaits get_user(), validate() or get_user_id(): get_user_id
\* returns a user_id that is set; else __aenter__ stores a new client in
\* self.client and awaits its connect()
CallStarts ==
    \E t \in Tasks, op \in LookupOps :
        /\ call.op = "lookups"
        /\ call.tasks[t].pc = "idle"
        /\ IF op = "get_user_id" /\ mgr.user_id \notin {None, 0}
           THEN /\ call' = [call EXCEPT
                              !.tasks[t] = Task(op, "done", "None", "None",
                                                Returned(mgr.user_id))]
                /\ mgr' = mgr
           ELSE /\ call' = [call EXCEPT
                              !.tasks[t] = Task(op, "connect", "None", "None",
                                                IdleTask.res),
                              !.clients[t] = "connecting",
                              !.overlap = @ \/ Running # {}]
                /\ mgr' = [mgr EXCEPT !.client = ClientOf(t)]
        /\ UNCHANGED <<pkg, tok, fs>>

\* connect() raises: the exception leaves __aenter__, and __aexit__ is not
\* run for a context that was not entered
ConnectRaises ==
    \E t \in Tasks :
        /\ call.op = "lookups"
        /\ call.tasks[t].pc = "connect"
        /\ call' = [call EXCEPT
                      !.tasks[t] = [@ EXCEPT !.pc = "done",
                                             !.res = Raised("ConnectionError")],
                      !.clients[t] = "failed"]
        /\ UNCHANGED <<pkg, tok, fs, mgr>>

\* connect() returns: __aenter__ returns what self.client holds by now, and
\* the body awaits its get_me(); None has no get_me, and then no disconnect
\* in __aexit__ either
ConnectReturns ==
    \E t \in Tasks :
        /\ call.op = "lookups"
        /\ call.tasks[t].pc = "connect"
        /\ call' = [call EXCEPT
                      !.tasks[t] =
                          IF mgr.client = "None"
                          THEN aexit(mgr, @, Raised("AttributeError"))
                          ELSE [@ EXCEPT !.pc = "get_me", !.client = mgr.client],
                      !.clients[t] = "connected"]
        /\ UNCHANGED <<pkg, tok, fs, mgr>>

\* get_me() returns the account or None, or raises; a client that is not
\* connected cannot send the request. The body stores the user, and
\* __aexit__ begins
GetMeReturns ==
    \E t \in Tasks, network \in Networks \ {"ConnectionError"} :
        LET task == call.tasks[t]
            body == IF call.clients[Owner(task.client)] # "connected"
                    THEN Raised("ConnectionError")
                    ELSE IF network = "RPCError" THEN Raised("RPCError")
                    ELSE Returned(None)
            self == IF body.kind # "ok" THEN mgr
                    ELSE IF network = "user"
                    THEN [mgr EXCEPT !.user = TEST_USER_ID, !.user_id = TEST_USER_ID]
                    ELSE [mgr EXCEPT !.user = None]
        IN /\ call.op = "lookups"
           /\ task.pc = "get_me"
           /\ call' = [call EXCEPT !.tasks[t] = aexit(self, task, body)]
           /\ mgr' = self
           /\ UNCHANGED <<pkg, tok, fs>>

\* disconnect() returns: __aexit__ stores None in self.client, and the call
\* ends
DisconnectReturns ==
    \E t \in Tasks :
        LET task == call.tasks[t]
            out == Outcome(task.op, [mgr EXCEPT !.client = "None"], task.res)
        IN /\ call.op = "lookups"
           /\ task.pc = "disconnect"
           /\ call' = [call EXCEPT
                         !.tasks[t] = [@ EXCEPT !.pc = "done", !.res = out.res],
                         !.clients[Owner(task.disc)] =
                             IF @ = "connected" THEN "disconnected" ELSE @]
           /\ mgr' = out.self
           /\ UNCHANGED <<pkg, tok, fs>>

NextClient ==
    \/ CallStarts
    \/ ConnectRaises
    \/ ConnectReturns
    \/ GetMeReturns
    \/ DisconnectReturns

SpecClient == InitClient /\ [][NextClient]_vars

----------------------------------------------------------------------------
(* Claims about the manager's client                                       *)

\* C27: whenever no get_user(), validate() or get_user_id() call is in
\* progress, the manager's client is None and every client that __aenter__
\* connected has been disconnected; this holds also after connect() or
\* get_me() raised. (Stated of calls made one after the other.)
C27_ClientReleased ==
    (call.op = "lookups" /\ ~call.overlap /\ Running = {}) =>
        /\ mgr.client = "None"
        /\ \A t \in Tasks : call.clients[t] # "connected"

\* C28: of two get_user(), validate() or get_user_id() calls on one manager
\* that interleave at their awaits, each disconnects exactly its own client,
\* neither fails because of the other (no get_me or disconnect on a client
\* that is None), and no client is left connected without a disconnect.
C28_OwnClientDisconnected ==
    call.op = "lookups" =>
        /\ \A t \in Tasks :
              /\ call.tasks[t].disc \in {"None", ClientOf(t)}
              /\ call.tasks[t].res.kind # "AttributeError"
        /\ Running = {} => \A t \in Tasks : call.clients[t] # "connected"

====
